---- MODULE Spec2Model ----
(***************************************************************************)
(* A model of the mutation engine of the random polygon generator: the     *)
(* constrained triangulation (vertices, edges, triangles), the vertex      *)
(* insertion, the hole insertion, the kinetic translation with its event   *)
(* queue, flips and undo, and the retriangulation translation.             *)
(*                                                                         *)
(* Coordinates are exact rationals in homogeneous form (x/w, y/w), w > 0,  *)
(* so that midpoints, centroids, intersection points and interpolated      *)
(* positions are represented without rounding; the orientation predicate   *)
(* is sign-correct (Arithmetics::EXACT).  An edge is identified by the set *)
(* of its two vertices and a triangle by the set of its three vertices;    *)
(* the creation of a second edge between the same two vertices cannot be   *)
(* represented and is recorded as exit code DuplicateEdge.                 *)
(***************************************************************************)
EXTENDS Integers, Sequences, FiniteSets, TLC

\* The number of mutating operations (insertions, hole insertions,
\* translations) explored in one behaviour.
MaxOps == 3

\* Settings::nrInnerPolygons: the number of holes the strategy inserts.
nrInnerPolygons == 1

NULL == {}

\* The process state after a null pointer dereference (signal 11), and the mark
\* of a state the model cannot represent (a second edge between two vertices, a
\* nested corrective translation).
SegFault == 128 + 11
Unrepresentable == 0 - 1

\* The pseudo exit code of a loop that never ends
Hang == 0 - 2

\* With(x, F) is F(x): the value x under the name of the parameter of F, as
\* a local variable of the code holds a value that is computed once.
With(x, F(_)) == F(x)
With2(x, y, F(_, _)) == F(x, y)
With3(x, y, z, F(_, _, _)) == F(x, y, z)
With4(x, y, z, u, F(_, _, _, _)) == F(x, y, z, u)

(***************************************************************************)
(* Exact arithmetic on homogeneous points                                  *)
(***************************************************************************)
Abs(n) == IF n < 0 THEN -n ELSE n

RECURSIVE GCD(_, _)
GCD(a, b) == IF b = 0 THEN a ELSE GCD(b, a % b)

Norm(p) ==
    LET Reduced(g) == [x |-> p.x \div g, y |-> p.y \div g, w |-> p.w \div g]
    IN  Reduced(GCD(GCD(Abs(p.x), Abs(p.y)), p.w))

Pt(x, y) == [x |-> x, y |-> y, w |-> 1]

PAdd(p, q) == Norm([x |-> p.x * q.w + q.x * p.w, y |-> p.y * q.w + q.y * p.w, w |-> p.w * q.w])
PSub(p, q) == Norm([x |-> p.x * q.w - q.x * p.w, y |-> p.y * q.w - q.y * p.w, w |-> p.w * q.w])
PScale(p, n, d) == Norm([x |-> p.x * n, y |-> p.y * n, w |-> p.w * d])

\* Triangle::det / orient2d: twice the signed area of (a, b, c), scaled by the
\* positive factor a.w * b.w * c.w; positive iff a, b, c turn counter-clockwise.
Det(a, b, c) ==
      a.x * (b.y * c.w - c.y * b.w)
    - a.y * (b.x * c.w - c.x * b.w)
    + a.w * (b.x * c.y - c.x * b.y)

\* signbit() of an exact area: zero is +0.
Signbit(area) == area < 0

\* Comparison of the rationals an/ad and bn/bd (ad, bd > 0).
RLess(an, ad, bn, bd) == an * bd < bn * ad
RLeq(an, ad, bn, bd) == an * bd <= bn * ad


(***************************************************************************)
(* The heap of geometric entities.  A heap H is a record                   *)
(*   V   : vertex id -> [x, y, w, pid, toPrev, toNext]; pid -1 marks the   *)
(*         vertices of the bounding box, toPrev / toNext are edges or NULL *)
(*   L   : Triangulation::vertices, the sequence of polygon vertices       *)
(*   P   : ring id -> TPolygon::vertices, the sequence of ring vertices    *)
(*   E   : edge -> [v0, v1, type, t0, t1, id]                              *)
(*   T   : triangle -> [v, e, internal, enqueued, id]                      *)
(*   n   : the number of edges and triangles created so far (the ids give  *)
(*         the order of Vertex::edges and Vertex::triangles)               *)
(*   err : 0, or the exit code the process ended with                      *)
(***************************************************************************)
EdgeOf(a, b) == {a, b}

Pos(H, v) == [x |-> H.V[v].x, y |-> H.V[v].y, w |-> H.V[v].w]

\* Vertex::setPosition
SetPosition(H, v, p) == [H EXCEPT !.V[v].x = p.x, !.V[v].y = p.y, !.V[v].w = p.w]

\* Vertex::triangles and Vertex::edges: the live entities registered at v.
TrianglesOf(H, v) == {t \in DOMAIN H.T : v \in t}
EdgesOf(H, v) == {e \in DOMAIN H.E : v \in e}

\* The elements of a set of triangles (edges) in the order of their creation,
\* which is the order of the std::list they are registered in.
RECURSIVE ByCreation(_, _)
ByCreation(F, S) ==
    IF S = {} THEN << >>
    ELSE LET m == CHOOSE k \in S : \A j \in S : F[k].id <= F[j].id
         IN  <<m>> \o ByCreation(F, S \ {m})

\* Vertex::getEdgeTo
GetEdgeTo(H, a, b) == IF EdgeOf(a, b) \in DOMAIN H.E THEN EdgeOf(a, b) ELSE NULL

\* TEdge::getOtherVertex
OtherVertexOfEdge(e, v) == CHOOSE u \in e : u # v

\* Vertex::getPrev and Vertex::getNext
GetPrev(H, v) == OtherVertexOfEdge(H.V[v].toPrev, v)
GetNext(H, v) == OtherVertexOfEdge(H.V[v].toNext, v)

\* Triangle::getOtherVertex(e)
OtherVertex(t, e) == CHOOSE u \in t : u \notin e

\* TEdge::nrAssignedTriangles
NrAssignedTriangles(ed) == (IF ed.t0 = NULL THEN 0 ELSE 1) + (IF ed.t1 = NULL THEN 0 ELSE 1)

\* TEdge::getOtherTriangle: t1 if t is t0, otherwise t0.
GetOtherTriangle(H, e, t) == IF H.E[e].t0 = t THEN H.E[e].t1 ELSE H.E[e].t0

\* TEdge::getTriangleNotContaining
GetTriangleNotContaining(H, e, v) ==
    IF H.E[e].t0 # NULL /\ v \notin H.E[e].t0 THEN H.E[e].t0 ELSE H.E[e].t1

\* TEdge::getTriangleContaining
GetTriangleContaining(H, e, v) ==
    IF v \in H.E[e].t0 THEN H.E[e].t0
    ELSE IF v \in H.E[e].t1 THEN H.E[e].t1
    ELSE NULL

Fail(H, code) == [H EXCEPT !.err = code]

\* A POLYGON edge is not set as toNext of v0 and toPrev of v1.
NewEdgeUnlinked(H, a, b, tp) ==
    IF H.err # 0 THEN H
    ELSE IF a = b THEN Fail(H, 1)
    ELSE IF EdgeOf(a, b) \in DOMAIN H.E THEN Fail(H, Unrepresentable)
    ELSE LET e == EdgeOf(a, b)
         IN  [H EXCEPT !.n = @ + 1,
                       !.E = (e :> [v0 |-> a, v1 |-> b, type |-> tp, t0 |-> NULL,
                                    t1 |-> NULL, id |-> H.n]) @@ H.E]

\* TEdge::TEdge: registers the edge at its vertices; a POLYGON edge makes v0
\* the predecessor of v1.
NewEdge(H, a, b, tp) ==
    IF H.err # 0 THEN H
    ELSE IF a = b THEN Fail(H, 1)
    ELSE IF EdgeOf(a, b) \in DOMAIN H.E THEN Fail(H, Unrepresentable)
    ELSE LET e == EdgeOf(a, b)
             V1 == IF tp = "POLYGON"
                   THEN [H.V EXCEPT ![a].toNext = e, ![b].toPrev = e]
                   ELSE H.V
         IN  [H EXCEPT !.V = V1,
                       !.n = @ + 1,
                       !.E = (e :> [v0 |-> a, v1 |-> b, type |-> tp, t0 |-> NULL,
                                    t1 |-> NULL, id |-> H.n]) @@ H.E]

\* The edge keeps the registration of a deleted triangle.
RemoveTriangleKeeps(ed, t) == ed

\* TEdge::removeTriangle
RemoveTriangle(ed, t) ==
    [ed EXCEPT !.t0 = IF @ = t THEN NULL ELSE @, !.t1 = IF @ = t THEN NULL ELSE @]

\* Triangle::~Triangle: deregisters the triangle from its edges and vertices.
DeleteTriangle(H, t) ==
    IF H.err # 0 THEN H
    ELSE IF t \notin DOMAIN H.T THEN Fail(H, SegFault)
    ELSE [H EXCEPT !.T = [k \in DOMAIN H.T \ {t} |-> H.T[k]],
                   !.E = [e \in DOMAIN H.E |-> RemoveTriangle(H.E[e], t)]]

\* TEdge::~TEdge: deletes the triangles of the edge, deregisters the edge from
\* its vertices and removes it from the triangulation.
DeleteEdge(H, e) ==
    IF H.err # 0 THEN H
    ELSE IF e \notin DOMAIN H.E THEN Fail(H, SegFault)
    ELSE LET gone == {H.E[e].t0, H.E[e].t1} \ {NULL}
         IN  [H EXCEPT !.T = [k \in DOMAIN H.T \ gone |-> H.T[k]],
                       !.E = [f \in DOMAIN H.E \ {e} |->
                                RemoveTriangle(RemoveTriangle(H.E[f], H.E[e].t0), H.E[e].t1)]]

\* The triangle is always set at t0.
SetTriangleFirst(ed, t) == [ed EXCEPT !.t0 = t]

\* TEdge::setTriangle: the triangle is set at t0 if t0 is NULL, otherwise at t1.
SetTriangle(ed, t) == IF ed.t0 = NULL THEN [ed EXCEPT !.t0 = t] ELSE [ed EXCEPT !.t1 = t]

\* The exit code of TEdge::setTriangle for the i-th edge of a new triangle: 5
\* if the triangle is already registered at the edge (the edge was passed
\* twice), 4 if the edge has already registered two triangles.
SetTriangleCode(H, es, i) ==
    IF \E j \in 1..(i - 1) : es[j] = es[i] THEN 5
    ELSE IF NrAssignedTriangles(H.E[es[i]]) >= 2 THEN 4
    ELSE 0

\* The exit code of Triangle::Triangle: the three registrations in turn, then
\* the search for an existing triangle with the same three edges (5).
NewTriangleCode(H, es, t) ==
    IF \E i \in 1..3 : es[i] \notin DOMAIN H.E THEN SegFault
    ELSE IF SetTriangleCode(H, es, 1) # 0 THEN SetTriangleCode(H, es, 1)
    ELSE IF SetTriangleCode(H, es, 2) # 0 THEN SetTriangleCode(H, es, 2)
    ELSE IF SetTriangleCode(H, es, 3) # 0 THEN SetTriangleCode(H, es, 3)
    ELSE LET other == IF H.E[es[1]].t0 # NULL THEN H.E[es[1]].t0 ELSE H.E[es[1]].t1
         IN  IF other # NULL /\ es[2] \in {H.T[other].e[k] : k \in 1..3}
                             /\ es[3] \in {H.T[other].e[k] : k \in 1..3}
             THEN 5
             ELSE IF t \in DOMAIN H.T THEN Unrepresentable
             ELSE 0

\* Triangle::Triangle(E0, E1, E2, V0, V1, V2, intern)
NewTriangle(H, e0, e1, e2, a, b, c, intern) ==
    IF H.err # 0 THEN H
    ELSE IF a = b \/ a = c \/ b = c THEN Fail(H, 5)
    ELSE LET t == {a, b, c}
             es == <<e0, e1, e2>>
             code == NewTriangleCode(H, es, t)
         IN  IF code # 0 THEN Fail(H, code)
             ELSE [H EXCEPT
                     !.n = @ + 1,
                     !.T = (t :> [v |-> <<a, b, c>>, e |-> es, internal |-> intern,
                                  enqueued |-> FALSE, id |-> H.n]) @@ H.T,
                     !.E = [f \in DOMAIN H.E |->
                              IF f \in {e0, e1, e2} THEN SetTriangle(H.E[f], t) ELSE H.E[f]]]

\* Triangulation::addVertex with the Vertex constructor: the new vertex gets
\* the next id and is appended to the vertices of the triangulation and of
\* its ring; exit code 12 if the ring does not exist.
NewVertexId(H) == Cardinality(DOMAIN H.V) + 1

\* The new vertex is not appended to the vertices of its ring.
AddVertexOutsideRing(H, p, pid) ==
    IF H.err # 0 THEN H
    ELSE IF pid \notin DOMAIN H.P THEN Fail(H, 12)
    ELSE LET v == NewVertexId(H)
         IN  [H EXCEPT !.V = (v :> [x |-> p.x, y |-> p.y, w |-> p.w, pid |-> pid,
                                    toPrev |-> NULL, toNext |-> NULL]) @@ H.V,
                       !.L = Append(@, v)]

AddVertex(H, p, pid) ==
    IF H.err # 0 THEN H
    ELSE IF pid \notin DOMAIN H.P THEN Fail(H, 12)
    ELSE LET v == NewVertexId(H)
         IN  [H EXCEPT !.V = (v :> [x |-> p.x, y |-> p.y, w |-> p.w, pid |-> pid,
                                    toPrev |-> NULL, toNext |-> NULL]) @@ H.V,
                       !.L = Append(@, v),
                       !.P = [@ EXCEPT ![pid] = Append(@, v)]]

(***************************************************************************)
(* Geometric predicates                                                    *)
(***************************************************************************)
\* p.x <= q.x and p.y <= q.y for rational coordinates
XLeq(p, q) == p.x * q.w <= q.x * p.w
YLeq(p, q) == p.y * q.w <= q.y * p.w

\* TEdge::isBetween: v is inside the axis-parallel rectangle spanned by a and
\* b, tested along the longer side of the rectangle.
IsBetween(a, b, v) ==
    LET Longer(r) == Abs(r.x) >= Abs(r.y)
    IN  IF Longer(PSub(b, a))
        THEN (XLeq(a, v) /\ XLeq(v, b)) \/ (XLeq(b, v) /\ XLeq(v, a))
        ELSE (YLeq(a, v) /\ YLeq(v, b)) \/ (YLeq(b, v) /\ YLeq(v, a))

\* checkIntersection of the segments (a, b) and (c, d): VERTEX if an end of
\* one segment lies at the other segment, EDGE if the segments cross.  With
\* exact coordinates a determinant below Settings::epsInt is a determinant 0.
CheckIntersection(a, b, c, d) ==
    With4(Det(a, b, c), Det(a, b, d), Det(c, d, a), Det(c, d, b),
          LAMBDA d0, d1, d2, d3 :
              IF \/ d0 = 0 /\ IsBetween(a, b, c)
                 \/ d1 = 0 /\ IsBetween(a, b, d)
                 \/ d2 = 0 /\ IsBetween(c, d, a)
                 \/ d3 = 0 /\ IsBetween(c, d, b)
              THEN "VERTEX"
              ELSE IF Signbit(d0) # Signbit(d1) /\ Signbit(d2) # Signbit(d3)
              THEN "EDGE"
              ELSE "NONE")

\* checkIntersection of a segment with a TEdge of the heap
CheckIntersectionE(H, a, b, e) == CheckIntersection(a, b, Pos(H, H.E[e].v0), Pos(H, H.E[e].v1))

\* crossProduct2D of two difference vectors, up to the positive factor u.w * v.w
Cross(u, v) == u.x * v.y - u.y * v.x

\* The NULL returned by getIntersectionPoint: no point has the denominator 0
NoPoint == [x |-> 0, y |-> 0, w |-> 0]

\* getIntersectionPoint of the segments (a, b) and (c, d): the point
\* a + t (b - a) = c + u (d - c) with 0 <= t, u <= 1, NoPoint if there is none.
GetIntersectionPoint(a, b, c, d) ==
    With3(PSub(b, a), PSub(d, c), PSub(c, a), LAMBDA r, s, q :
    With(Cross(r, s), LAMBDA den :
    With4(Cross(q, s) * r.w * (IF den < 0 THEN -1 ELSE 1), Abs(den) * q.w,
          Cross(q, r) * s.w * (IF den < 0 THEN -1 ELSE 1), Abs(den) * q.w,
          LAMBDA tn, td, un, ud :
              IF den = 0 THEN NoPoint
              ELSE IF tn < 0 \/ tn > td \/ un < 0 \/ un > ud THEN NoPoint
              ELSE PAdd(a, PScale(r, tn, td)))))

\* Triangle::insideTriangle
InsideTriangle(v0, v1, v2, v) ==
    LET Same(s0, s1, s2) == s0 = s1 /\ s0 = s2
    IN  Same(Signbit(Det(v0, v1, v)), Signbit(Det(v1, v2, v)), Signbit(Det(v2, v0, v)))

\* A time n / d with d > 0 in lowest terms; d = 0 stands for the result of a
\* division by zero.
Time(n, d) ==
    IF d = 0 THEN [n |-> 0, d |-> 0]
    ELSE LET Reduced(g, sg) == [n |-> sg * (n \div g), d |-> sg * (d \div g)]
         IN  Reduced(GCD(Abs(n), Abs(d)), IF d < 0 THEN -1 ELSE 1)

TimeLess(s, t) == s.n * t.d < t.n * s.d
TimeLeq(s, t) == s.n * t.d <= t.n * s.d

\* Triangle::calculateCollapseTime for the triangle t of the heap with the
\* moving vertex at position c and the translation vector d: with a, b the
\* other two vertices in the order of the triangle, areaOld / (areaOld +
\* areaNew), which is Det(a, b, c) / (Det(a, b, c) - Det(a, b, c + d)).
CalculateCollapseTime(H, t, moving, c, d) ==
    LET vs == H.T[t].v
    IN  IF moving \notin t THEN Time(-1, 1)
        ELSE
        With(IF moving = vs[1] THEN <<vs[2], vs[3]>>
             ELSE IF moving = vs[2] THEN <<vs[1], vs[3]>>
             ELSE <<vs[1], vs[2]>>, LAMBDA ab :
        With3(Pos(H, ab[1]), Pos(H, ab[2]), PAdd(c, d), LAMBDA a, b, e :
        With2(Det(a, b, c) * e.w, Det(a, b, e) * c.w, LAMBDA areaOld, areaNew :
            Time(areaOld, areaOld - areaNew))))

\* The squared length of the edge e as a rational <<numerator, denominator>>
Length2(H, e) ==
    LET Square(r) == [n |-> r.x * r.x + r.y * r.y, d |-> r.w * r.w]
    IN  Square(PSub(Pos(H, H.E[e].v1), Pos(H, H.E[e].v0)))

\* Triangle::getLongestEdge: the longest edge, or the second longest one if
\* the longest edge is a polygon edge and both are of the same length.
GetLongestEdge(H, t) ==
    LET es == H.T[t].e
    IN  With([i \in 1..3 |-> Length2(H, es[i])], LAMBDA l :
        LET geq(i, j) == TimeLeq(l[j], l[i])
        IN  \* the indices of the longest and the second longest edge
            With(IF geq(1, 2) /\ geq(1, 3)
                 THEN <<1, IF geq(2, 3) THEN 2 ELSE 3>>
                 ELSE IF geq(2, 3)
                 THEN <<2, IF geq(1, 3) THEN 1 ELSE 3>>
                 ELSE <<3, IF geq(1, 2) THEN 1 ELSE 2>>, LAMBDA pair :
            IF H.E[es[pair[1]]].type = "POLYGON" /\ geq(pair[2], pair[1])
            THEN es[pair[2]]
            ELSE es[pair[1]]))

\* Triangle::getLongestEdgeAlt: the first edge of the triangle with the
\* opposite vertex between its ends.
GetLongestEdgeAlt(H, t) ==
    LET es == H.T[t].e
    IN  With([i \in 1..3 |-> IsBetween(Pos(H, H.E[es[i]].v0), Pos(H, H.E[es[i]].v1),
                                       Pos(H, OtherVertex(t, es[i])))], LAMBDA between :
            IF between[1] THEN es[1]
            ELSE IF between[2] THEN es[2]
            ELSE IF between[3] THEN es[3]
            ELSE GetLongestEdge(H, t))

(***************************************************************************)
(* Checks on the triangulation around a vertex                             *)
(***************************************************************************)
\* Triangle::getEdgeContaining(v) and Triangle::getOtherEdgeContaining(v, e):
\* the first edge of the triangle that contains v (and is not e), or NULL.
GetOtherEdgeContaining(H, t, v, e) ==
    LET es == H.T[t].e
    IN  IF es[1] # e /\ v \in es[1] THEN es[1]
        ELSE IF es[2] # e /\ v \in es[2] THEN es[2]
        ELSE IF es[3] # e /\ v \in es[3] THEN es[3]
        ELSE NULL

GetEdgeContaining(H, t, v) == GetOtherEdgeContaining(H, t, v, NULL)

\* Triangle::getEdgeNotContaining(v)
GetEdgeNotContaining(H, t, v) ==
    LET es == H.T[t].e
    IN  IF v \notin es[1] THEN es[1]
        ELSE IF v \notin es[2] THEN es[2]
        ELSE IF v \notin es[3] THEN es[3]
        ELSE NULL

\* Triangle::getOtherEdges(e)
GetOtherEdges(H, t, e) == SelectSeq(H.T[t].e, LAMBDA f : f # e)

\* The vertices of the surrounding polygon of v in the order in which
\* Vertex::checkSurroundingPolygon collects them, walking from triangle t over
\* the edge e until the first triangle t0 is reached again; a final 0 marks
\* the dereference of a NULL pointer (or a walk that does not return).
RECURSIVE SurroundingWalk(_, _, _, _, _, _)
SurroundingWalk(H, v, t, e, t0, fuel) ==
    IF t = NULL \/ fuel = 0 THEN <<0>>
    ELSE IF t = t0 THEN << >>
    ELSE LET f == GetOtherEdgeContaining(H, t, v, e)
         IN  IF f = NULL THEN <<0>>
             ELSE <<OtherVertexOfEdge(f, v)>>
                  \o SurroundingWalk(H, v, GetOtherTriangle(H, f, t), f, t0, fuel - 1)

SurroundingQueue(H, v) ==
    With(ByCreation(H.T, TrianglesOf(H, v))[1], LAMBDA t0 :
    With(GetEdgeContaining(H, t0, v), LAMBDA e :
    With(GetOtherEdgeContaining(H, t0, v, e), LAMBDA f :
        <<OtherVertexOfEdge(e, v), OtherVertexOfEdge(f, v)>>
        \o SurroundingWalk(H, v, GetOtherTriangle(H, f, t0), f, t0,
                           Cardinality(DOMAIN H.T)))))

\* The exit code 10 of Vertex::checkSurroundingPolygon for the collapsed
\* triangle (first, second, v): its longest edge is a polygon edge.
OnPolygonEdge(H, v, first, second) ==
    LET t == {v, first, second}
    IN  H.E[GetLongestEdgeAlt(H, t)].type = "POLYGON"

\* The comparison loop of Vertex::checkSurroundingPolygon over the queue q
\* from position k on; the result is "TRUE", "FALSE" or "EXIT10".
RECURSIVE SurroundingLoop(_, _, _, _, _)
SurroundingLoop(H, v, q, k, area0) ==
    IF k > Len(q) THEN "TRUE"
    ELSE With(Det(Pos(H, q[k - 1]), Pos(H, q[k]), Pos(H, v)), LAMBDA area :
             IF area = 0
             THEN IF OnPolygonEdge(H, v, q[k - 1], q[k]) THEN "EXIT10"
                  ELSE SurroundingLoop(H, v, q, k + 1, area0)
             ELSE IF Signbit(area) # Signbit(area0)
             THEN IF area0 = 0 THEN SurroundingLoop(H, v, q, k + 1, area)
                  ELSE "FALSE"
             ELSE SurroundingLoop(H, v, q, k + 1, area0))

\* Vertex::checkSurroundingPolygon: "TRUE", "FALSE", "EXIT10" or "CRASH"
CheckSurroundingPolygon(H, v) ==
    IF TrianglesOf(H, v) = {} THEN "CRASH"
    ELSE With(SurroundingQueue(H, v), LAMBDA q :
         IF q[Len(q)] = 0 THEN "CRASH"
         ELSE With(Det(Pos(H, q[1]), Pos(H, q[2]), Pos(H, v)), LAMBDA area0 :
              IF area0 = 0 /\ OnPolygonEdge(H, v, q[1], q[2]) THEN "EXIT10"
              ELSE SurroundingLoop(H, v, q, 3, area0)))

\* Vertex::getSurroundingEdges
GetSurroundingEdges(H, v) ==
    LET ts == ByCreation(H.T, TrianglesOf(H, v))
    IN  [i \in 1..Len(ts) |-> GetEdgeNotContaining(H, ts[i], v)]

\* The loop of Translation::checkEdge over the triangles behind the first
\* intersected edge: "TRUE", "FALSE" or "CRASH".
RECURSIVE CheckEdgeWalk(_, _, _, _, _, _)
CheckEdgeWalk(H, a, b, nextT, intersectedE, fuel) ==
    IF nextT = NULL \/ fuel = 0 THEN "CRASH"
    ELSE With(GetOtherEdges(H, nextT, intersectedE), LAMBDA surEdges :
         With2(CheckIntersectionE(H, a, b, surEdges[1]),
               CheckIntersectionE(H, a, b, surEdges[2]), LAMBDA iType0, iType1 :
             IF iType0 = "NONE" /\ iType1 = "NONE" THEN "TRUE"
             ELSE IF iType0 = "VERTEX" \/ iType1 = "VERTEX" THEN "FALSE"
             ELSE IF iType0 # "NONE" /\ iType1 # "NONE" THEN "FALSE"
             ELSE With(IF iType0 # "NONE" THEN surEdges[1] ELSE surEdges[2], LAMBDA hit :
                  IF H.E[hit].type # "TRIANGULATION" THEN "FALSE"
                  ELSE CheckEdgeWalk(H, a, b, GetOtherTriangle(H, hit, nextT), hit,
                                     fuel - 1))))

\* Translation::checkEdge for the new edge from a (the position of fromV) to
\* b: "TRUE" if it intersects no polygon edge, no edge of the bounding box
\* and no vertex.
CheckEdge(H, fromV, a, b) ==
    With(GetSurroundingEdges(H, fromV), LAMBDA surEdges :
    With([i \in 1..Len(surEdges) |-> CheckIntersectionE(H, a, b, surEdges[i])],
         LAMBDA types :
    With({i \in 1..Len(surEdges) : types[i] = "EDGE"}, LAMBDA hits :
        IF \E i \in 1..Len(surEdges) : types[i] = "VERTEX" THEN "FALSE"
        ELSE IF hits = {} THEN "TRUE"
        ELSE IF Cardinality(hits) > 1 THEN "FALSE"
        ELSE With(surEdges[CHOOSE i \in hits : TRUE], LAMBDA intersectedE :
             IF H.E[intersectedE].type # "TRIANGULATION" THEN "FALSE"
             ELSE CheckEdgeWalk(H, a, b,
                                GetTriangleNotContaining(H, intersectedE, fromV),
                                intersectedE, Cardinality(DOMAIN H.T))))))

(***************************************************************************)
(* The event queue of a kinetic translation: a sequence of events          *)
(* [time, t], ordered by time                                              *)
(***************************************************************************)
\* EventQueue::insertWithoutCheck: an ordered insert, behind the events that
\* are not later.
InsertWithoutCheck(Q, time, t) ==
    LET Behind(k) ==
            SubSeq(Q, 1, k) \o <<[time |-> time, t |-> t]>> \o SubSeq(Q, k + 1, Len(Q))
    IN  Behind(Cardinality({i \in 1..Len(Q) : TimeLeq(Q[i].time, time)}))

\* EventQueue::remove
QueueRemove(Q, t) == SelectSeq(Q, LAMBDA ev : ev.t # t)

\* Two events are concurrent if their times are closer than
\* Settings::epsEventTime; on the grid of the model these are equal times.
Concurrent(s, t) == s = t

\* EventQueue::makeStable: false iff three neighbouring events are pairwise
\* concurrent.
MakeStable(Q) ==
    ~ \E i \in 1..(Len(Q) - 2) :
          /\ Concurrent(Q[i].time, Q[i + 1].time)
          /\ Concurrent(Q[i + 1].time, Q[i + 2].time)
          /\ Concurrent(Q[i].time, Q[i + 2].time)

\* The positions i at which EventQueue::stabilize may switch the triangles of
\* the concurrent events i and i + 1, and the queue after switching at the
\* positions S.
SwitchPositions(Q) == {i \in 1..(Len(Q) - 1) : Concurrent(Q[i].time, Q[i + 1].time)}

Switched(Q, S) ==
    [i \in 1..Len(Q) |->
        IF i \in S THEN [time |-> Q[i].time, t |-> Q[i + 1].t]
        ELSE IF (i - 1) \in S THEN [time |-> Q[i].time, t |-> Q[i - 1].t]
        ELSE Q[i]]

(***************************************************************************)
(* The kinetic translation                                                 *)
(***************************************************************************)
\* Translation::Translation and TranslationKinetic::TranslationKinetic for
\* the vertex v and the translation vector d
TranslationKinetic(H, v, d, tp) ==
    [original |-> v,
     prevV |-> GetPrev(H, v),
     nextV |-> GetNext(H, v),
     oldV |-> Pos(H, v),
     newV |-> PAdd(Pos(H, v), d),
     d |-> d,
     type |-> tp,
     split |-> FALSE,
     part |-> 0,
     Q |-> << >>,
     actualTime |-> Time(0, 1),
     FlipStack |-> << >>,
     popped |-> << >>,
     snap |-> << >>,
     ex |-> "NONE"]

\* The position of the moving vertex at the time s
PositionAt(tr, s) == PAdd(tr.oldV, PScale(tr.d, s.n, s.d))

\* The event of the triangle t is put in front of the queue.
EnqueueFirst(R, tr, t, time) ==
    [H |-> IF time.d = 0 THEN Fail(R.H, Unrepresentable)
           ELSE [R.H EXCEPT !.T[t].enqueued = TRUE],
     Q |-> <<[time |-> time, t |-> t]>> \o R.Q,
     insertion |-> TRUE]

\* Triangle::enqueue with EventQueue::insertWithoutCheck for the collapse time
\* of the triangle t; R is a record [H, Q, insertion].
Enqueue(R, tr, t, time) ==
    [H |-> IF time.d = 0 THEN Fail(R.H, Unrepresentable)
           ELSE [R.H EXCEPT !.T[t].enqueued = TRUE],
     Q |-> InsertWithoutCheck(R.Q, time, t),
     insertion |-> TRUE]

\* The test of insertAfterOppositeFlip for one new triangle t with the
\* non-shared vertex V: t collapses before the end of the translation if the
\* start and the target are on different sides of the edge from V to common.
InsertIfCollapsing(R, tr, t, V, common) ==
    With2(Det(Pos(R.H, V), Pos(R.H, common), tr.oldV),
          Det(Pos(R.H, V), Pos(R.H, common), tr.newV), LAMBDA area0, area1 :
        IF area1 = 0 \/ Signbit(area0) # Signbit(area1)
        THEN Enqueue(R, tr, t, CalculateCollapseTime(R.H, t, tr.original, tr.oldV, tr.d))
        ELSE R)

\* TranslationKinetic::insertAfterOppositeFlip; the moving vertex is at oldV.
\* Both triangles are tested if the translation line passes between leftV
\* and rightV (area0 and area1 of different sign), else the left one if the
\* moving vertex is on the side of common (area0 and area2 of the same
\* sign), else the right one.
InsertAfterOppositeFlip(R, tr, leftT, rightT, leftV, rightV, common) ==
    With3(Pos(R.H, leftV), Pos(R.H, rightV), Pos(R.H, common), LAMBDA l, r, c :
    With3(Det(l, PAdd(l, tr.d), c), Det(r, PAdd(r, tr.d), c),
          Det(l, PAdd(l, tr.d), tr.oldV), LAMBDA area0, area1, area2 :
    With(IF Signbit(area0) # Signbit(area1) \/ Signbit(area0) = Signbit(area2)
         THEN InsertIfCollapsing(R, tr, leftT, leftV, common)
         ELSE R, LAMBDA R0 :
        IF Signbit(area0) # Signbit(area1) \/ Signbit(area0) # Signbit(area2)
        THEN InsertIfCollapsing(R0, tr, rightT, rightV, common)
        ELSE R0)))

\* TranslationKinetic::insertAfterNonOppositeFlip
InsertAfterNonOppositeFlip(R, tr, t, shared0, shared1, opposite) ==
    With2(Pos(R.H, shared0), Pos(R.H, shared1), LAMBDA s0, s1 :
    With3(Det(s0, s1, Pos(R.H, opposite)), Det(s0, s1, tr.newV), Det(s0, s1, tr.oldV),
          LAMBDA area0, area1, area2 :
        IF Signbit(area0) = Signbit(area1)
           /\ (area1 = 0 \/ Signbit(area2) # Signbit(area1))
        THEN Enqueue(R, tr, t, CalculateCollapseTime(R.H, t, tr.original, tr.oldV, tr.d))
        ELSE R))

\* An edge of any type is flipped.
FlipNeverRefused(H, e) == FALSE

\* The check of TranslationKinetic::flip for the type of the edge to flip
FlipRefused(H, e) == H.E[e].type = "POLYGON"

\* TranslationKinetic::flip; the result is a record [H, tr, ok].
Flip(H, tr, t0, singleFlip) ==
    IF H.err # 0 THEN [H |-> H, tr |-> tr, ok |-> TRUE]
    ELSE IF t0 \notin DOMAIN H.T THEN [H |-> Fail(H, SegFault), tr |-> tr, ok |-> TRUE]
    ELSE
    \* H0 is the heap with the moving vertex at its position of the event
    With(SetPosition(H, tr.original, IF singleFlip THEN Pos(H, tr.original)
                                     ELSE PositionAt(tr, tr.actualTime)), LAMBDA H0 :
    With(GetLongestEdgeAlt(H0, t0), LAMBDA e :
    With(GetOtherTriangle(H0, e, t0), LAMBDA t1 :
        IF FlipRefused(H0, e) THEN [H |-> Fail(H0, 3), tr |-> tr, ok |-> TRUE]
        ELSE IF t1 = NULL THEN [H |-> Fail(H0, SegFault), tr |-> tr, ok |-> TRUE]
        ELSE
        \* the flip of the edge e from vj0 to vj1 between t0 and t1 to the
        \* edge from vn0 to vn1
        LET vj0 == H0.E[e].v0
            vj1 == H0.E[e].v1
            vn0 == OtherVertex(t0, e)
            vn1 == OtherVertex(t1, e)
        IN
        LET oppositeFlip == tr.original \notin e
            internal == H0.T[t0].internal
            ne == EdgeOf(vn0, vn1)
            nt0 == {vn0, vn1, vj0}
            nt1 == {vn0, vn1, vj1}
            common == IF vn0 = tr.original THEN vn1 ELSE vn0
            opposite == IF vj0 = tr.original THEN vj1 ELSE vj0
        IN
        With(NewEdge(DeleteEdge(H0, e), vn0, vn1, "TRIANGULATION"), LAMBDA H2 :
        \* the two new triangles at the new edge
        With(NewTriangle(H2, ne, GetEdgeTo(H2, vj0, vn0), GetEdgeTo(H2, vj0, vn1),
                         vn0, vn1, vj0, internal), LAMBDA H3 :
        With(NewTriangle(H3, ne, GetEdgeTo(H3, vj1, vn0), GetEdgeTo(H3, vj1, vn1),
                         vn0, vn1, vj1, internal), LAMBDA H4 :
        With(IF H0.T[t1].enqueued THEN QueueRemove(tr.Q, t1) ELSE tr.Q, LAMBDA Q1 :
            IF singleFlip \/ H4.err # 0
            THEN [H |-> H4, tr |-> [tr EXCEPT !.Q = Q1], ok |-> TRUE]
            ELSE
            \* the events of the new triangles, ins the result of their insertion
            With([H |-> SetPosition(H4, tr.original, tr.oldV), Q |-> Q1,
                  insertion |-> FALSE], LAMBDA R :
            With(IF oppositeFlip
                 THEN InsertAfterOppositeFlip(R, tr, nt0, nt1, vj0, vj1, common)
                 ELSE InsertAfterNonOppositeFlip(
                          R, tr, IF tr.original \in nt0 THEN nt0 ELSE nt1,
                          vn0, vn1, opposite), LAMBDA ins :
                [H |-> SetPosition(ins.H, tr.original, Pos(H0, tr.original)),
                 tr |-> [tr EXCEPT !.Q = ins.Q,
                                   !.FlipStack = Append(@, <<vj0, vj1, vn0, vn1>>)],
                 ok |-> IF ins.insertion THEN MakeStable(ins.Q) ELSE TRUE])))))))))

\* The loop of TranslationKinetic::undo over the flip stack, last flip first
RECURSIVE UndoFlips(_, _)
UndoFlips(H, FlipStack) ==
    IF FlipStack = << >> \/ H.err # 0 THEN H
    ELSE LET f == FlipStack[Len(FlipStack)]
         IN
         LET oldD0 == f[1]
             oldD1 == f[2]
             newD0 == f[3]
             newD1 == f[4]
         IN
         With(GetEdgeTo(H, newD0, newD1), LAMBDA e :
             IF e = NULL THEN Fail(H, SegFault)
             ELSE IF H.E[e].t0 = NULL THEN Fail(H, SegFault)
             ELSE
             With(H.T[H.E[e].t0].internal, LAMBDA internal :
             With(NewEdge(DeleteEdge(H, e), oldD0, oldD1, "TRIANGULATION"), LAMBDA H2 :
             \* the two triangles at the old edge
             With(NewTriangle(H2, EdgeOf(oldD0, oldD1), GetEdgeTo(H2, oldD0, newD0),
                              GetEdgeTo(H2, oldD1, newD0), oldD0, oldD1, newD0, internal),
                  LAMBDA H3 :
             With(NewTriangle(H3, EdgeOf(oldD0, oldD1), GetEdgeTo(H3, oldD0, newD1),
                              GetEdgeTo(H3, oldD1, newD1), oldD0, oldD1, newD1, internal),
                  LAMBDA H4 :
                 UndoFlips(H4, SubSeq(FlipStack, 1, Len(FlipStack) - 1)))))))

\* The heap after an exit or a crash found by Vertex::checkSurroundingPolygon
SurroundingFailure(H, res) ==
    IF res = "EXIT10" THEN Fail(H, 10)
    ELSE IF res = "CRASH" THEN Fail(H, SegFault)
    ELSE H

\* TranslationKinetic::undo with Settings::localChecking; the result is a
\* record [H, tr, undone].
Undo(H, tr) ==
    With(CheckSurroundingPolygon(H, tr.original), LAMBDA res :
        IF res = "FALSE"
        THEN [H |-> SetPosition(UndoFlips(H, tr.FlipStack), tr.original, tr.oldV),
              tr |-> [tr EXCEPT !.FlipStack = << >>],
              undone |-> TRUE]
        ELSE [H |-> SurroundingFailure(H, res), tr |-> tr, undone |-> FALSE])

\* The loop of TranslationKinetic::generateInitialQueue over the triangles ts
\* of the moving vertex; the result is a record [H, tr, ok].
RECURSIVE InitialQueueLoop(_, _, _)
InitialQueueLoop(H, tr, ts) ==
    IF H.err # 0 THEN [H |-> H, tr |-> tr, ok |-> FALSE]
    ELSE IF ts = << >> THEN [H |-> H, tr |-> tr, ok |-> MakeStable(tr.Q)]
    ELSE LET i == ts[1]
         IN
         With(GetEdgeNotContaining(H, i, tr.original), LAMBDA opposite :
         With2(Pos(H, H.E[opposite].v0), Pos(H, H.E[opposite].v1), LAMBDA v0, v1 :
         With2(Det(v0, v1, tr.oldV), Det(v0, v1, tr.newV), LAMBDA areaOld, areaNew :
             IF areaOld = 0
             THEN IF H.E[GetLongestEdgeAlt(H, i)].type = "POLYGON"
                  THEN [H |-> Fail(H, 7), tr |-> tr, ok |-> FALSE]
                  ELSE With(Flip(H, tr, i, TRUE), LAMBDA F :
                           [H |-> F.H, tr |-> F.tr, ok |-> FALSE])
             ELSE IF areaNew # 0 /\ Signbit(areaOld) = Signbit(areaNew)
             THEN InitialQueueLoop(H, tr, Tail(ts))
             ELSE
             With(CalculateCollapseTime(H, i, tr.original, tr.oldV, tr.d), LAMBDA t :
                 InitialQueueLoop(
                     [H EXCEPT !.T[i].enqueued = TRUE],
                     [tr EXCEPT !.Q = InsertWithoutCheck(
                                          @, IF TimeLess(t, Time(0, 1)) THEN Time(0, 1)
                                             ELSE IF TimeLess(Time(1, 1), t) THEN Time(1, 1)
                                             ELSE t, i)],
                     Tail(ts))))))

\* TranslationKinetic::generateInitialQueue
GenerateInitialQueue(H, tr) ==
    InitialQueueLoop(H, tr, ByCreation(H.T, TrianglesOf(H, tr.original)))

\* The loop of TranslationKinetic::repairEnd over the triangles ts the moving
\* vertex had when the loop started, T0 their records at that time.  A
\* triangle of the list that a flip has deleted is a dangling pointer: the
\* read of it either crashes or (stale) yields what the triangle held, and a
\* flip of such a triangle crashes.  Moving the vertex back by a tenth of the
\* translation is a further translation, which the model does not follow.
RECURSIVE RepairEndLoop(_, _, _, _, _)
RepairEndLoop(H, tr, ts, T0, stale) ==
    IF H.err # 0 \/ ts = << >> THEN H
    ELSE LET i == ts[1]
             vs == T0[ts[1]].v
         IN
         With(Det(Pos(H, vs[1]), Pos(H, vs[2]), Pos(H, vs[3])), LAMBDA area :
             IF i \notin DOMAIN H.T /\ (~stale \/ area = 0) THEN Fail(H, SegFault)
             ELSE IF area # 0 THEN RepairEndLoop(H, tr, Tail(ts), T0, stale)
             ELSE IF H.E[GetLongestEdgeAlt(H, i)].type # "POLYGON"
             THEN RepairEndLoop(Flip(H, tr, i, TRUE).H, tr, Tail(ts), T0, stale)
             ELSE Fail(H, Unrepresentable))

\* TranslationKinetic::~TranslationKinetic: the repair of collapsed triangles
\* and the final check of the surrounding polygon (exit code 6).
Destructor(H, tr, stale) ==
    With(RepairEndLoop(H, tr, ByCreation(H.T, TrianglesOf(H, tr.original)), H.T, stale),
         LAMBDA H1 :
        IF H1.err # 0 THEN H1
        ELSE With(CheckSurroundingPolygon(H1, tr.original), LAMBDA res :
                 IF res = "FALSE" THEN Fail(H1, 6) ELSE SurroundingFailure(H1, res)))

\* insideQuadrilateral without the side from newV to nextV
InsideQuadrilateralOpen(H, tr, v) ==
    LET max(a, b) == IF XLeq(a, b) THEN b ELSE a
    IN
    With3(Pos(H, v), Pos(H, tr.prevV), Pos(H, tr.nextV), LAMBDA p, prev, next :
    With(max(max(max(tr.oldV, tr.newV), prev), next), LAMBDA m :
        IF ~ XLeq(p, m) THEN FALSE
        ELSE
        With(Norm([x |-> (m.x + 10 * m.w) * p.w, y |-> p.y * m.w, w |-> m.w * p.w]),
             LAMBDA dummyVertex :
        With3(CheckIntersection(p, dummyVertex, prev, tr.oldV),
              CheckIntersection(p, dummyVertex, tr.oldV, next),
              CheckIntersection(p, dummyVertex, prev, tr.newV),
              LAMBDA i0, i1, i2 :
            IF "VERTEX" \in {i0, i1, i2} THEN FALSE
            ELSE ((IF i0 # "NONE" THEN 1 ELSE 0) + (IF i1 # "NONE" THEN 1 ELSE 0)
                  + (IF i2 # "NONE" THEN 1 ELSE 0)) % 2 = 1))))

\* Translation::insideQuadrilateral: the parity of the intersections of the
\* ray from v to the right with the quadrilateral of oldV, newV and the
\* neighbours; false if the ray hits a vertex.
InsideQuadrilateral(H, tr, v) ==
    LET max(a, b) == IF XLeq(a, b) THEN b ELSE a
    IN
    With3(Pos(H, v), Pos(H, tr.prevV), Pos(H, tr.nextV), LAMBDA p, prev, next :
    \* the rightmost corner m and the end of the ray from p to the right of it
    With(max(max(max(tr.oldV, tr.newV), prev), next), LAMBDA m :
        IF ~ XLeq(p, m) THEN FALSE
        ELSE
        With(Norm([x |-> (m.x + 10 * m.w) * p.w, y |-> p.y * m.w, w |-> m.w * p.w]),
             LAMBDA dummyVertex :
        \* the types of the intersections with the four sides
        With4(CheckIntersection(p, dummyVertex, prev, tr.oldV),
              CheckIntersection(p, dummyVertex, tr.oldV, next),
              CheckIntersection(p, dummyVertex, prev, tr.newV),
              CheckIntersection(p, dummyVertex, tr.newV, next),
              LAMBDA i0, i1, i2, i3 :
            IF "VERTEX" \in {i0, i1, i2, i3} THEN FALSE
            ELSE ((IF i0 # "NONE" THEN 1 ELSE 0) + (IF i1 # "NONE" THEN 1 ELSE 0)
                  + (IF i2 # "NONE" THEN 1 ELSE 0) + (IF i3 # "NONE" THEN 1 ELSE 0))
                 % 2 = 1))))

\* The first vertices of the holes other than the ring of the moving vertex
OtherRingVertices(H, tr) ==
    {H.P[i][1] : i \in {j \in DOMAIN H.P \ {0} : j # H.V[tr.original].pid}}

\* TranslationKinetic::checkOrientation; the result is a record
\* [orientationChange, split].
CheckOrientation(H, tr) ==
    With3(Pos(H, tr.prevV), Pos(H, tr.nextV), OtherRingVertices(H, tr),
          LAMBDA prev, next, others :
    \* for the vertices of the holes: inside the triangle of prev, of next
    With2([v \in others |-> InsideTriangle(tr.oldV, tr.newV, prev, Pos(H, v))],
          [v \in others |-> InsideTriangle(tr.oldV, tr.newV, next, Pos(H, v))],
          LAMBDA in0, in1 :
    With2(Det(prev, next, tr.oldV), Det(prev, next, tr.newV), LAMBDA areaOld, areaNew :
        LET triangle == Len(H.P[H.V[tr.original].pid]) = 3
        IN  [orientationChange |->
                 IF \E v \in others : in0[v] # in1[v] THEN TRUE
                 ELSE IF \/ CheckIntersection(prev, tr.oldV, tr.newV, next) # "NONE"
                         \/ CheckIntersection(tr.oldV, next, prev, tr.newV) # "NONE"
                 THEN FALSE
                 ELSE IF triangle /\ (Signbit(areaOld) # Signbit(areaNew) \/ areaNew = 0)
                 THEN TRUE
                 \* the vertices tested against the quadrilateral: the neighbours
                 \* of the neighbours (if the ring is not a triangle), then the
                 \* holes
                 ELSE \E v \in (IF triangle THEN {}
                                ELSE {GetPrev(H, tr.prevV), GetNext(H, tr.nextV)})
                               \cup others : InsideQuadrilateral(H, tr, v),
             split |-> \E v \in others : in0[v] /\ in1[v]])))

\* Translation::checkOrientation, the version the translation by
\* retriangulation uses: a vertex of another polygon inside one of the two
\* triangles of the translation rejects it, there is no split.
BaseCheckOrientation(H, tr) ==
    With3(Pos(H, tr.prevV), Pos(H, tr.nextV), OtherRingVertices(H, tr),
          LAMBDA prev, next, others :
    With2(Det(prev, next, tr.oldV), Det(prev, next, tr.newV), LAMBDA areaOld, areaNew :
        LET triangle == Len(H.P[H.V[tr.original].pid]) = 3
        IN  IF \E v \in others :
                  \/ InsideTriangle(tr.oldV, tr.newV, prev, Pos(H, v))
                  \/ InsideTriangle(tr.oldV, tr.newV, next, Pos(H, v))
            THEN TRUE
            ELSE IF \/ CheckIntersection(prev, tr.oldV, tr.newV, next) # "NONE"
                    \/ CheckIntersection(tr.oldV, next, prev, tr.newV) # "NONE"
            THEN FALSE
            ELSE IF triangle /\ (Signbit(areaOld) # Signbit(areaNew) \/ areaNew = 0)
            THEN TRUE
            ELSE \E v \in (IF triangle THEN {}
                           ELSE {GetPrev(H, tr.prevV), GetNext(H, tr.nextV)})
                          \cup others : InsideQuadrilateral(H, tr, v)))

\* Translation::checkSimplicityOfTranslation: the two polygon edges of the
\* moving vertex count as triangulation edges during the check.
CheckSimplicityOfTranslation(H, tr) ==
    With([H EXCEPT !.E[H.V[tr.original].toPrev].type = "TRIANGULATION",
                   !.E[H.V[tr.original].toNext].type = "TRIANGULATION"], LAMBDA H1 :
    \* the checks of the new edges from the two neighbours
    With(CheckEdge(H1, tr.prevV, Pos(H, tr.prevV), tr.newV), LAMBDA first :
        IF first # "TRUE" THEN first
        ELSE CheckEdge(H1, tr.nextV, Pos(H, tr.nextV), tr.newV)))

(***************************************************************************)
(* The translation by retriangulation: the translations with a non-simple  *)
(* translation quadrilateral (case 3) up to the visibility check           *)
(***************************************************************************)
\* A Polygon to retriangulate: the chain v of vertices and the chain e of
\* edges, e[i] from v[i] to v[i + 1] and the last edge back to v[1].
NoPolygon == [v |-> << >>, e |-> << >>, internal |-> FALSE]

\* The result of a walk that dereferences a NULL pointer
CrashedWalk == [v |-> <<0>>, e |-> << >>, rm |-> << >>]

\* The loop of bPSRC3OppositeDirection from the triangle t over the edge e of
\* the moving vertex to secondaryE: the vertices and the edges added to p0
\* and the edges to remove.
RECURSIVE OppositeWalk(_, _, _, _, _, _)
OppositeWalk(H, original, t, e, secondaryE, fuel) ==
    IF t = NULL \/ e = NULL \/ fuel = 0 THEN CrashedWalk
    ELSE LET SPEdge == GetEdgeNotContaining(H, t, original)
             Joined(rest) ==
                 IF rest.v # << >> /\ rest.v[1] = 0 THEN CrashedWalk
                 ELSE [v |-> <<OtherVertexOfEdge(e, original)>> \o rest.v,
                       e |-> <<SPEdge>> \o rest.e,
                       rm |-> <<e>> \o rest.rm]
             Behind(next) ==
                 Joined(OppositeWalk(H, original, next,
                                     IF next = NULL THEN NULL
                                     ELSE GetOtherEdgeContaining(H, next, original, e),
                                     secondaryE, fuel - 1))
         IN  IF e = secondaryE THEN [v |-> << >>, e |-> <<SPEdge>>, rm |-> << >>]
             ELSE Behind(GetOtherTriangle(H, e, t))

RECURSIVE DeleteEdges(_, _)
DeleteEdges(H, es) ==
    IF es = << >> THEN H ELSE DeleteEdges(DeleteEdge(H, es[1]), Tail(es))

\* bPSRC3OppositeDirection: the polygon p0 between primaryE and secondaryE on
\* the side of the target; its inner edges at the moving vertex are deleted.
\* The result is a record [H, p0].
BPSRC3OppositeDirection(H, tr, primaryV, secondaryV) ==
    LET primaryE == EdgeOf(tr.original, primaryV)
        secondaryE == EdgeOf(tr.original, secondaryV)
        Crashed == [H |-> Fail(H, SegFault), p0 |-> NoPolygon]
        \* for the walk w from the triangle t
        Polygon(t, w) ==
            IF w.v # << >> /\ w.v[1] = 0 THEN Crashed
            ELSE [H |-> DeleteEdges(H, w.rm),
                  p0 |-> [v |-> <<primaryV>> \o w.v \o <<secondaryV, tr.original>>,
                          e |-> w.e \o <<secondaryE, primaryE>>,
                          internal |-> H.T[t].internal]]
        From(t) ==
            IF t = NULL THEN Crashed
            ELSE Polygon(t, OppositeWalk(H, tr.original, t,
                                         GetOtherEdgeContaining(H, t, tr.original, primaryE),
                                         secondaryE, Cardinality(DOMAIN H.T)))
        Side(t0, t1, area0, area1) ==
            From(IF Signbit(area0) # Signbit(area1) THEN t1 ELSE t0)
        Triangles(t0, t1) ==
            IF t0 = NULL THEN Crashed
            ELSE Side(t0, t1,
                      Det(Pos(H, primaryV), tr.oldV, Pos(H, OtherVertex(t0, primaryE))),
                      Det(Pos(H, primaryV), tr.oldV, tr.newV))
        Edge(e) ==
            IF e # NULL /\ GetTriangleContaining(H, e, tr.original) # NULL
            THEN [H |-> H, p0 |-> NoPolygon]
            ELSE Triangles(H.E[primaryE].t0, H.E[primaryE].t1)
    IN  Edge(GetEdgeTo(H, primaryV, secondaryV))

\* Triangle::inside: newV is inside the triangle t
Inside(H, t, newV) ==
    LET v == H.T[t].v
    IN  InsideTriangle(Pos(H, v[1]), Pos(H, v[2]), Pos(H, v[3]), newV)

\* The loop of bPSRC3SPOld along the surrounding polygon from primaryV to the
\* triangle the translation ends in or leaves the surrounding polygon
\* through: the record [t, e] at the end of the loop, t = NULL after the
\* dereference of a NULL pointer.
RECURSIVE SPOldWalk(_, _, _, _, _, _)
SPOldWalk(H, tr, primaryV, t, e, fuel) ==
    IF t = NULL \/ e = NULL \/ fuel = 0 THEN [t |-> NULL, e |-> NULL]
    ELSE LET SPEdge == GetEdgeNotContaining(H, t, tr.original)
             next == GetOtherTriangle(H, e, t)
         IN  IF \/ primaryV \in SPEdge
                \/ /\ ~Inside(H, t, tr.newV)
                   /\ CheckIntersectionE(H, Pos(H, primaryV), tr.newV, SPEdge) = "NONE"
             THEN SPOldWalk(H, tr, primaryV, next,
                            IF next = NULL THEN NULL
                            ELSE GetOtherEdgeContaining(H, next, tr.original, e),
                            fuel - 1)
             ELSE [t |-> t, e |-> e]

\* The loop of checkVisibility through the triangles behind the intersected
\* edge: "TRUE", "FALSE" or "CRASH"
RECURSIVE VisibilityWalk(_, _, _, _, _, _)
VisibilityWalk(H, tr, a, b, t, surEdges) ==
    IF t = NULL \/ Len(surEdges) < 2 THEN "CRASH"
    ELSE LET Behind(intersected, next) ==
                 IF next = NULL THEN "CRASH"
                 ELSE VisibilityWalk(H, tr, a, b, next, GetOtherEdges(H, next, intersected))
             Hit(it, intersected) ==
                 IF it = "NONE" THEN "TRUE"
                 ELSE IF it = "VERTEX" THEN "FALSE"
                 ELSE IF tr.original \notin intersected THEN "FALSE"
                 ELSE Behind(intersected, GetOtherTriangle(H, intersected, t))
             \* for the types of the intersections with the first two edges
             Types(its) ==
                 Hit(IF its[1] = "NONE" THEN its[2] ELSE its[1],
                     IF its[1] = "NONE" THEN surEdges[2] ELSE surEdges[1])
         IN  Types([k \in 1..2 |-> CheckIntersectionE(H, a, b, surEdges[k])])

\* The loop of checkVisibility over the surrounding edges of v0 from the
\* index i
RECURSIVE VisibilityLoop(_, _, _, _, _, _)
VisibilityLoop(H, tr, v0, v1, surEdges, i) ==
    IF i > Len(surEdges) THEN "TRUE"
    ELSE LET f == surEdges[i]
             \* for the edge e from v0 to v1
             Seen(e) ==
                 IF e = NULL \/ H.E[e].t0 = NULL THEN "CRASH"
                 ELSE IF tr.original \in H.E[e].t0 THEN "TRUE"
                 ELSE IF H.E[e].t1 = NULL THEN "CRASH"
                 ELSE IF tr.original \in H.E[e].t1 THEN "TRUE"
                 ELSE "FALSE"
             Behind(t) ==
                 IF t = NULL THEN "CRASH"
                 ELSE VisibilityWalk(H, tr, Pos(H, v0), Pos(H, v1), t, GetOtherEdges(H, t, f))
             Crossing(it) ==
                 IF it = "VERTEX" THEN "FALSE"
                 ELSE IF it = "EDGE"
                 THEN IF tr.original \notin f THEN "FALSE"
                      ELSE Behind(GetTriangleNotContaining(H, f, v0))
                 ELSE VisibilityLoop(H, tr, v0, v1, surEdges, i + 1)
         IN  IF v1 \in f THEN Seen(GetEdgeTo(H, v0, v1))
             ELSE Crossing(CheckIntersectionE(H, Pos(H, v0), Pos(H, v1), f))

\* checkVisibility: v0 sees v1 through the interior of the surrounding polygon
\* of the moving vertex: "TRUE", "FALSE" or "CRASH"
CheckVisibility(H, tr, v0, v1, refV) ==
    LET areaRef == Det(Pos(H, v1), Pos(H, tr.original), Pos(H, refV))
        area == Det(Pos(H, v1), Pos(H, tr.original), Pos(H, v0))
    IN  IF Signbit(areaRef) = Signbit(area) THEN "TRUE"
        ELSE VisibilityLoop(H, tr, v0, v1, GetSurroundingEdges(H, v0), 1)

\* The loop of triangulateVisible that cuts off an ear also at startVertex
RECURSIVE TriangulateVisibleLoopAtStart(_, _, _, _, _, _, _)
TriangulateVisibleLoopAtStart(H, v, e, start, referenceDet, internal, fuel) ==
    LET n == Len(v)
        G == NewTriangle(NewEdge(H, v[1], v[3], "TRIANGULATION"),
                         e[1], e[2], EdgeOf(v[1], v[3]), v[1], v[2], v[3], internal)
        Ear(area) ==
            IF area # 0 /\ Signbit(area) = Signbit(referenceDet)
            THEN TriangulateVisibleLoopAtStart(G,
                     <<v[n], v[1]>> \o SubSeq(v, 3, n - 1),
                     <<e[n], EdgeOf(v[1], v[3])>> \o SubSeq(e, 3, n - 1),
                     start, referenceDet, internal, fuel - 1)
            ELSE TriangulateVisibleLoopAtStart(H, Tail(v) \o <<v[1]>>, Tail(e) \o <<e[1]>>,
                     start, referenceDet, internal, fuel - 1)
    IN  IF H.err # 0 THEN H
        ELSE IF n = 3 THEN NewTriangle(H, e[1], e[2], e[3], v[1], v[2], v[3], internal)
        ELSE IF fuel = 0 THEN Fail(H, Hang)
        ELSE Ear(Det(Pos(H, v[1]), Pos(H, v[2]), Pos(H, v[3])))

\* The loop of Polygon::triangulateVisible.  The chains v and e are kept
\* rotated such that v0, v1, v2 are v[1], v[2], v[3] and e0, e1 are e[1],
\* e[2]; start is startVertex.  An ear v0, v1, v2 in convex position is cut
\* off and the loop steps back by one vertex, otherwise it steps forward.  A
\* polygon without such an ear keeps the loop running forever (Hang).
RECURSIVE TriangulateVisibleLoop(_, _, _, _, _, _, _)
TriangulateVisibleLoop(H, v, e, start, referenceDet, internal, fuel) ==
    LET n == Len(v)
        \* the heap after the ear v0, v1, v2 is cut off
        G == NewTriangle(NewEdge(H, v[1], v[3], "TRIANGULATION"),
                         e[1], e[2], EdgeOf(v[1], v[3]), v[1], v[2], v[3], internal)
        Ear(area) ==
            IF v[2] # start /\ area # 0 /\ Signbit(area) = Signbit(referenceDet)
            THEN TriangulateVisibleLoop(G,
                     <<v[n], v[1]>> \o SubSeq(v, 3, n - 1),
                     <<e[n], EdgeOf(v[1], v[3])>> \o SubSeq(e, 3, n - 1),
                     start, referenceDet, internal, fuel - 1)
            ELSE TriangulateVisibleLoop(H, Tail(v) \o <<v[1]>>, Tail(e) \o <<e[1]>>,
                     start, referenceDet, internal, fuel - 1)
    IN  IF H.err # 0 THEN H
        ELSE IF n = 3 THEN NewTriangle(H, e[1], e[2], e[3], v[1], v[2], v[3], internal)
        ELSE IF fuel = 0 THEN Fail(H, Hang)
        ELSE Ear(Det(Pos(H, v[1]), Pos(H, v[2]), Pos(H, v[3])))

\* Polygon::triangulate of an edge-visible polygon (Polygon::triangulateVisible)
TriangulateVisible(H, p) ==
    LET n == Len(p.v)
    IN  IF n < 3 THEN Fail(H, SegFault)
        ELSE TriangulateVisibleLoop(H, p.v, p.e, p.v[1],
                 Det(Pos(H, p.v[n]), Pos(H, p.v[1]), Pos(H, p.v[2])),
                 p.internal, n * n)

\* The loop of Polygon::triangulateStar, with the chains rotated as in
\* TriangulateVisibleLoop.  An ear v0, v1, v2 in convex position that does
\* not contain the kernel is cut off.
RECURSIVE TriangulateStarLoop(_, _, _, _, _, _, _)
TriangulateStarLoop(H, v, e, kernel, referenceDet, internal, fuel) ==
    LET n == Len(v)
        G == NewTriangle(NewEdge(H, v[1], v[3], "TRIANGULATION"),
                         e[1], e[2], EdgeOf(v[1], v[3]), v[1], v[2], v[3], internal)
        Ear(area, inside) ==
            IF ~inside /\ area # 0 /\ Signbit(area) = Signbit(referenceDet)
            THEN TriangulateStarLoop(G,
                     <<v[n], v[1]>> \o SubSeq(v, 3, n - 1),
                     <<e[n], EdgeOf(v[1], v[3])>> \o SubSeq(e, 3, n - 1),
                     kernel, referenceDet, internal, fuel - 1)
            ELSE TriangulateStarLoop(H, Tail(v) \o <<v[1]>>, Tail(e) \o <<e[1]>>,
                     kernel, referenceDet, internal, fuel - 1)
    IN  IF H.err # 0 THEN H
        ELSE IF n = 3 THEN NewTriangle(H, e[1], e[2], e[3], v[1], v[2], v[3], internal)
        ELSE IF fuel = 0 THEN Fail(H, Hang)
        ELSE Ear(Det(Pos(H, v[1]), Pos(H, v[2]), Pos(H, v[3])),
                 InsideTriangle(Pos(H, v[1]), Pos(H, v[2]), Pos(H, v[3]), kernel))

\* Polygon::triangulate of a star-shaped polygon with the kernel point kernel
\* (Polygon::triangulateStar)
TriangulateStar(H, p, kernel) ==
    LET n == Len(p.v)
    IN  IF n < 3 THEN Fail(H, SegFault)
        ELSE TriangulateStarLoop(H, p.v, p.e, kernel,
                 Det(Pos(H, p.v[1]), Pos(H, p.v[2]), kernel),
                 p.internal, n * n)

(***************************************************************************)
(* The selection tree (SelectionTree<T>, STEntry<T>): a binary tree whose  *)
(* nodes hold one object each and the weights and the numbers of nodes of  *)
(* their two subtrees.  A tree record S has the nodes N (a node is its     *)
(* index in N), the root, the queue emptyNodes of the nodes without an     *)
(* object, the flag weighted, and the objects O with their weight          *)
(* (getWeight), their back-pointer entry (setSTEntry) and whether they are *)
(* alive.  Weights are positive integers.                                  *)
(***************************************************************************)

\* The numbers of objects and the largest weight of an object
MaxObjects == 4
MaxWeight == 2

\* The null pointer to a node and to an object
NoEntry == 0
NoObject == 0

\* The objects before their construction
NoObjects == [o \in 1 .. MaxObjects |-> [weight |-> 1, entry |-> NoEntry, alive |-> FALSE, destroyed |-> FALSE]]

EmptyTree(w, O) ==
    [N |-> << >>, root |-> NoEntry, emptyNodes |-> << >>, weighted |-> w, O |-> O]

\* STEntry::update: the own weight and the weights and node counts of the
\* children are read again, then the same for the parent
RECURSIVE Update(_, _)
Update(S, n) ==
    With3(S.N[n], IF S.N[n].leftChild # NoEntry THEN S.N[S.N[n].leftChild] ELSE S.N[n],
          IF S.N[n].rightChild # NoEntry THEN S.N[S.N[n].rightChild] ELSE S.N[n],
      LAMBDA e, l, r :
        With4(IF ~S.weighted THEN 1
              ELSE IF e.element # NoObject THEN S.O[e.element].weight ELSE 0,
              IF e.leftChild # NoEntry THEN l.totalWeight ELSE e.leftWeight,
              IF e.rightChild # NoEntry THEN r.totalWeight ELSE e.rightWeight,
              [l |-> IF e.leftChild # NoEntry THEN l.nrElementsTotal ELSE e.nrElementsLeft,
               r |-> IF e.rightChild # NoEntry THEN r.nrElementsTotal ELSE e.nrElementsRight],
          LAMBDA elementWeight, leftWeight, rightWeight, nr :
            With([S EXCEPT !.N[n] =
                     [e EXCEPT !.elementWeight = elementWeight,
                               !.leftWeight = leftWeight,
                               !.rightWeight = rightWeight,
                               !.nrElementsLeft = nr.l,
                               !.nrElementsRight = nr.r,
                               !.totalWeight = elementWeight + leftWeight + rightWeight,
                               !.nrElementsTotal = nr.l + nr.r + 1]],
              LAMBDA S1 : IF e.parent # NoEntry THEN Update(S1, e.parent) ELSE S1)))

\* The constructor STEntry(e, p, t): a leaf with the object e, which gets the
\* new node as its entry
NewSTEntry(S, o, p) ==
    [S EXCEPT !.N = Append(S.N,
                      [element |-> o, parent |-> p,
                       leftChild |-> NoEntry, rightChild |-> NoEntry,
                       elementWeight |-> IF S.weighted THEN S.O[o].weight ELSE 1,
                       leftWeight |-> 0, rightWeight |-> 0,
                       totalWeight |-> IF S.weighted THEN S.O[o].weight ELSE 1,
                       nrElementsLeft |-> 0, nrElementsRight |-> 0,
                       nrElementsTotal |-> 1]),
              !.O[o].entry = Len(S.N) + 1]

\* STEntry::addChild: the child goes to the side with fewer nodes
AddChild(S, n, child) ==
    With2(S.N[n], S.N[child], LAMBDA e, c :
      With(IF e.nrElementsLeft <= e.nrElementsRight
           THEN [e EXCEPT !.leftChild = child, !.nrElementsLeft = 1,
                          !.leftWeight = c.totalWeight]
           ELSE [e EXCEPT !.rightChild = child, !.nrElementsRight = 1,
                          !.rightWeight = c.totalWeight],
        LAMBDA e1 :
          With([S EXCEPT !.N[n] =
                   [e1 EXCEPT !.nrElementsTotal = e1.nrElementsRight + e1.nrElementsLeft + 1,
                              !.totalWeight = e1.elementWeight + e1.leftWeight + e1.rightWeight]],
            LAMBDA S1 : IF e.parent # NoEntry THEN Update(S1, e.parent) ELSE S1)))

\* An empty node takes the object, which does not learn of it
SetObjectUnknown(S, n, o) ==
    Update([S EXCEPT !.N[n].element = o], n)

\* STEntry::setObject: an empty node takes the object e
SetObject(S, n, o) ==
    Update([S EXCEPT !.N[n].element = o, !.O[o].entry = n], n)

\* SelectionTree::addNodeToQueue
AddNodeToQueue(S, n) == [S EXCEPT !.emptyNodes = Append(S.emptyNodes, n)]

\* STEntry::removeObject: the node stays in the tree, without object and
\* without weight, and waits in emptyNodes for the next object
RemoveObject(S, n) ==
    With([S EXCEPT !.N[n].element = NoObject,
                   !.N[n].elementWeight = 0,
                   !.N[n].totalWeight = S.N[n].leftWeight + S.N[n].rightWeight],
      LAMBDA S1 :
        AddNodeToQueue(IF S.N[n].parent # NoEntry THEN Update(S1, S.N[n].parent) ELSE S1, n))

\* A subtree that takes every new object: the left one
GetLeftSubtree(e) == e.leftChild

\* STEntry::getLighterSubtree
GetLighterSubtree(e) ==
    IF e.nrElementsLeft <= e.nrElementsRight THEN e.leftChild ELSE e.rightChild

\* The loop of SelectionTree::insert: down the lighter subtrees to the node
\* that has none on its lighter side
RECURSIVE Descend(_, _)
Descend(S, n) ==
    IF GetLighterSubtree(S.N[n]) = NoEntry THEN n
    ELSE Descend(S, GetLighterSubtree(S.N[n]))

\* SelectionTree::insert
Insert(S, o) ==
    IF S.emptyNodes # << >>
    THEN SetObject([S EXCEPT !.emptyNodes = Tail(S.emptyNodes)], Head(S.emptyNodes), o)
    ELSE IF S.root = NoEntry
    THEN [NewSTEntry(S, o, NoEntry) EXCEPT !.root = Len(S.N) + 1]
    ELSE With(Descend(S, S.root), LAMBDA entry :
           AddChild(NewSTEntry(S, o, entry), entry, Len(S.N) + 1))

\* The values of getDoubleUniform(0, totalWeight) that the comparisons of
\* getRandomChild tell apart: with integer weights, k stands for the interval
\* from k to k + 1
Randoms(e) == 0 .. (IF e.totalWeight = 0 THEN 0 ELSE e.totalWeight - 1)

\* STEntry::getRandomChild with the random number given
GetRandomChild(S, n, random) ==
    With(S.N[n], LAMBDA e :
      IF e.nrElementsLeft # 0 /\ random < e.leftWeight THEN e.leftChild
      ELSE IF e.nrElementsRight # 0 /\ random < e.leftWeight + e.rightWeight
      THEN e.rightChild
      ELSE n)

\* The loop of SelectionTree::getRandomObject from the node n: the objects it
\* can return
RECURSIVE RandomObjectsFrom(_, _)
RandomObjectsFrom(S, n) ==
    UNION { With(GetRandomChild(S, n, k), LAMBDA c :
                IF c = n THEN {S.N[n].element} ELSE RandomObjectsFrom(S, c))
            : k \in Randoms(S.N[n]) }

\* SelectionTree::getRandomObject: the objects it can return
GetRandomObject(S) ==
    IF S.root = NoEntry THEN {NoObject} ELSE RandomObjectsFrom(S, S.root)

\* The probability that the loop of getRandomObject, at the node n, returns the
\* object o: each node draws its own random number, uniformly
RECURSIVE ChanceFrom(_, _, _)
ChanceFrom(S, n, o) ==
    With3({k \in Randoms(S.N[n]) : GetRandomChild(S, n, k) = S.N[n].leftChild
                                   /\ S.N[n].leftChild # n},
          {k \in Randoms(S.N[n]) : GetRandomChild(S, n, k) = S.N[n].rightChild
                                   /\ S.N[n].rightChild # n},
          {k \in Randoms(S.N[n]) : GetRandomChild(S, n, k) = n},
      LAMBDA left, right, this :
        With3(IF left = {} THEN Time(0, 1) ELSE ChanceFrom(S, S.N[n].leftChild, o),
              IF right = {} THEN Time(0, 1) ELSE ChanceFrom(S, S.N[n].rightChild, o),
              IF S.N[n].element = o THEN Time(1, 1) ELSE Time(0, 1),
          LAMBDA l, r, t :
            Time(Cardinality(left) * l.n * r.d * t.d
                   + Cardinality(right) * r.n * l.d * t.d
                   + Cardinality(this) * t.n * l.d * r.d,
                 Cardinality(Randoms(S.N[n])) * l.d * r.d * t.d)))

\* The probability that getRandomObject returns the object o
Chance(S, o) ==
    IF S.root = NoEntry THEN Time(0, 1) ELSE ChanceFrom(S, S.root, o)

\* The weight of a stored object in the selection
SelectionWeight(S, o) == IF S.weighted THEN S.O[o].weight ELSE 1

\* The objects in the nodes of the tree, and the nodes that hold the object o
Stored(S) == {S.N[n].element : n \in 1 .. Len(S.N)} \ {NoObject}
NodesOf(S, o) == {n \in 1 .. Len(S.N) : S.N[n].element = o}

RECURSIVE SumOfWeights(_, _)
SumOfWeights(S, os) ==
    IF os = {} THEN 0
    ELSE With(CHOOSE o \in os : TRUE, LAMBDA o :
           SelectionWeight(S, o) + SumOfWeights(S, os \ {o}))

\* The nodes of the subtree of the node n
RECURSIVE Subtree(_, _)
Subtree(S, n) ==
    IF n = NoEntry THEN {}
    ELSE {n} \cup Subtree(S, S.N[n].leftChild) \cup Subtree(S, S.N[n].rightChild)

\* The nodes of a subtree that hold an object
Occupied(S, n) == {m \in Subtree(S, n) : S.N[m].element # NoObject}

\* Triangle::~Triangle, TEdge::~TEdge: the object leaves its node
DestroyObject(S, o) ==
    With(IF S.O[o].entry # NoEntry THEN RemoveObject(S, S.O[o].entry) ELSE S,
      LAMBDA S1 : [S1 EXCEPT !.O[o].alive = FALSE, !.O[o].destroyed = TRUE])

\* Triangle::updateSTEntry, TEdge::updateSTEntry after a change of the weight
UpdateSTEntry(S, o, w) ==
    With([S EXCEPT !.O[o].weight = w], LAMBDA S1 :
      IF S.O[o].entry # NoEntry THEN Update(S1, S.O[o].entry) ELSE S1)

\* Triangulation::addEdge for a POLYGON edge with Settings::weightedEdgeSelection,
\* TPolygon::addEdge
AddEdge(S, o) == Insert(S, o)

(***************************************************************************)
(* Floating-point arithmetic (Arithmetics::DOUBLE, the default): binary    *)
(* numbers with a mantissa of FloatBits bits, every operation rounded to   *)
(* the nearest number, ties to the even mantissa, exponents unbounded.  A  *)
(* number is a reduced fraction [n, d] with d > 0; d = 0 marks the         *)
(* infinities (n = 1, n = -1) and NaN (n = 0).  The double of the program  *)
(* has 53 bits.                                                            *)
(***************************************************************************)
FloatBits == 3

\* Coordinates of the vertices and components of the translation vector, and
\* coordinates of the vertex with the smallest id
MaxCoordinate == 3
MaxOrigin == 1

NaN == [n |-> 0, d |-> 0]
Infinity(s) == [n |-> s, d |-> 0]

\* The number nearest to (n / d) * (sn / sd) for n, d > 0, where the mantissa
\* is the integer nearest to n / d once it has FloatBits bits
RECURSIVE Nearest(_, _, _, _)
Nearest(n, d, sn, sd) ==
    IF n >= 2^FloatBits * d THEN Nearest(n, 2 * d, 2 * sn, sd)
    ELSE IF n < 2^(FloatBits - 1) * d THEN Nearest(2 * n, d, sn, 2 * sd)
    ELSE With2(n \div d, n % d, LAMBDA m, r :
           Time((IF 2 * r > d \/ (2 * r = d /\ m % 2 = 1) THEN m + 1 ELSE m) * sn, sd))

\* The floating-point number for the fraction n / d, d # 0
Fl(n, d) ==
    With(Time(n, d), LAMBDA q :
      IF q.n = 0 THEN q
      ELSE With(Nearest(Abs(q.n), q.d, 1, 1), LAMBDA r :
             IF q.n < 0 THEN [r EXCEPT !.n = -r.n] ELSE r))

FAdd(x, y) ==
    IF x = NaN \/ y = NaN THEN NaN
    ELSE IF x.d = 0 THEN x
    ELSE IF y.d = 0 THEN y
    ELSE Fl(x.n * y.d + y.n * x.d, x.d * y.d)

FSub(x, y) == FAdd(x, [y EXCEPT !.n = -y.n])

\* The product of two finite numbers
FMul(x, y) == Fl(x.n * y.n, x.d * y.d)

\* The quotient; x and y are not both infinite
FDiv(x, y) ==
    IF x = NaN \/ y = NaN THEN NaN
    ELSE IF y.d = 0 THEN Time(0, 1)
    ELSE IF x.d = 0 THEN x
    ELSE IF y.n = 0 THEN (IF x.n = 0 THEN NaN ELSE Infinity(IF x.n < 0 THEN -1 ELSE 1))
    ELSE Fl(x.n * y.d, x.d * y.n)

\* x < y, false if one of them is NaN
FLess(x, y) ==
    IF x = NaN \/ y = NaN THEN FALSE
    ELSE IF x.d = 0 THEN x.n < 0 /\ y # x
    ELSE IF y.d = 0 THEN y.n > 0
    ELSE x.n * y.d < y.n * x.d

\* Triangle::det with the vertices V0, V1, V2 in the order of their ids
DetDouble(V0, V1, V2) ==
    With4(FSub(V1.x, V0.x), FSub(V1.y, V0.y), FSub(V2.x, V0.x), FSub(V2.y, V0.y),
      LAMBDA bx, by, cx, cy : FSub(FMul(cy, bx), FMul(by, cx)))

\* signbit of Triangle::det: a zero is negative if cy * bx is a negative zero
\* and by * cx a positive one; the differences bx, by, cx, cy are no negative
\* zeros
SignbitDet(V0, V1, V2) ==
    With4(FSub(V1.x, V0.x), FSub(V1.y, V0.y), FSub(V2.x, V0.x), FSub(V2.y, V0.y),
      LAMBDA bx, by, cx, cy :
        With(FSub(FMul(cy, bx), FMul(by, cx)), LAMBDA area :
          IF area.n # 0 THEN area.n < 0
          ELSE /\ (cy.n = 0 /\ bx.n < 0) \/ (bx.n = 0 /\ cy.n < 0)
               /\ (by.n = 0 /\ cx.n >= 0) \/ (cx.n = 0 /\ by.n >= 0)))

\* Vertex::getTranslated
GetTranslated(v, dx, dy) == [x |-> FAdd(v.x, dx), y |-> FAdd(v.y, dy)]

\* Triangle::calculateCollapseTime in floating-point arithmetic, for the moving
\* vertex at c and the other two vertices a, b in the order of the triangle
CalculateCollapseTimeDouble(a, b, c, dx, dy) ==
    With4(FSub(b.x, a.x), FSub(b.y, a.y), FSub(c.x, a.x), FSub(c.y, a.y),
      LAMBDA bx, by, cx, cy :
        With2(FAdd(cx, dx), FAdd(cy, dy), LAMBDA ex, ey :
          With2(FSub(FMul(cx, by), FMul(cy, bx)), FSub(FMul(bx, ey), FMul(by, ex)),
            LAMBDA areaOld, areaNew :
              FDiv(Time(1, 1), FAdd(FDiv(areaNew, areaOld), Time(1, 1))))))

\* No triangle under examination
NoCollapse == [at |-> "none"]

\* The two corrections of generateInitialQueue: t < 0 becomes 0, t > 1 becomes 1
Corrected(t) ==
    IF FLess(t, Time(0, 1)) THEN Time(0, 1)
    ELSE IF FLess(Time(1, 1), t) THEN Time(1, 1)
    ELSE t

(***************************************************************************)
(* Program state                                                           *)
(***************************************************************************)
VARIABLES
    vertices,    \* Vertex objects: the bounding box and the polygon vertices
    vertexList,  \* Triangulation::vertices
    polygons,    \* TPolygon::vertices of the outer polygon (0) and the holes
    edges,       \* the live TEdge objects
    triangles,   \* the live Triangle objects
    created,     \* the number of edges and triangles created so far
    exitCode,    \* 0 while the process runs, else its exit code
    pc,          \* the position of the process: "idle" between two operations
    tr,          \* the translation in execution
    outer,       \* the split translation that waits for a part to finish
    nOps,        \* the operations started so far
    kinetic,     \* Settings::kinetic: translations by flips or by retriangulation
    tree,        \* a SelectionTree with its nodes and the objects it selects from
    sampled,     \* the object that the last getRandomObject returned
    collapse,    \* a triangle of the moving vertex and the time of its event
    checked,     \* Settings::globalChecking and the result of Triangulation::check
    strategy,    \* the sizes of the polygons and the position of the strategy
    attempt,     \* the loop of Insertion::translate
    orientation, \* a translation and the result of its checkOrientation
    chain,       \* a Polygon chain, its calls and its triangulation
    growth       \* the loop of growPolygonBy

\* The state of the triangulation and of the operation on it, and the state of
\* the parts of the program that are examined on their own
programVars == <<vertices, vertexList, polygons, edges, triangles, created, exitCode,
                 pc, tr, outer, nOps, kinetic>>
componentVars == <<tree, sampled, collapse, checked, strategy, attempt, orientation, chain,
                   growth>>

\* All but the selection tree, all but the event, all but the strategy, all but
\* the loop of Insertion::translate, ...
exceptTree == <<programVars, collapse, checked, strategy, attempt, orientation, chain, growth>>
exceptCollapse == <<programVars, tree, sampled, checked, strategy, attempt, orientation, chain, growth>>
exceptStrategy == <<programVars, tree, sampled, collapse, checked, attempt, orientation, chain, growth>>
exceptAttempt == <<programVars, tree, sampled, collapse, checked, strategy, orientation, chain, growth>>
exceptOrientation == <<programVars, tree, sampled, collapse, checked, strategy, attempt, chain,
                       growth>>
exceptChain == <<programVars, tree, sampled, collapse, checked, strategy, attempt,
                 orientation, growth>>
exceptGrowth == <<programVars, tree, sampled, collapse, checked, strategy, attempt,
                  orientation, chain>>

\* The components before their use
NoCheck == [globalChecking |-> FALSE, result |-> "NONE", faults |-> 0]
NoStrategy == [at |-> "none"]
NoAttempt == [at |-> "none"]
NoOrientation == [at |-> "none"]
NoChain == [at |-> "none"]
NoGrowth == [at |-> "none"]
ComponentsAtRest ==
    /\ tree = EmptyTree(TRUE, NoObjects)
    /\ sampled = NoObject
    /\ collapse = NoCollapse
    /\ checked = NoCheck
    /\ strategy = NoStrategy
    /\ attempt = NoAttempt
    /\ orientation = NoOrientation
    /\ chain = NoChain
    /\ growth = NoGrowth

vars == <<programVars, componentVars>>

\* The triangulation at the call of execute, kept for the comparison with the
\* triangulation at its return
Snapshot(H) == [V |-> H.V, E |-> H.E, T |-> H.T, P |-> H.P]

\* No translation
NoTranslation == [original |-> 0, ex |-> "NONE"]

Heap ==
    [V |-> vertices, L |-> vertexList, P |-> polygons, E |-> edges, T |-> triangles,
     n |-> created, err |-> exitCode]

SetHeap(H) ==
    /\ vertices' = H.V
    /\ vertexList' = H.L
    /\ polygons' = H.P
    /\ edges' = H.E
    /\ triangles' = H.T
    /\ created' = H.n
    /\ exitCode' = H.err

(***************************************************************************)
(* The start: a square polygon (vertices 5..8, counter-clockwise) inside   *)
(* the bounding box (vertices 1..4), with the triangulation of the box.    *)
(***************************************************************************)
RECURSIVE AddEdges(_, _)
AddEdges(H, es) ==
    IF es = << >> THEN H
    ELSE AddEdges(NewEdge(H, es[1][1], es[1][2], es[1][3]), Tail(es))

RECURSIVE AddTriangles(_, _)
AddTriangles(H, ts) ==
    IF ts = << >> THEN H
    ELSE LET a == ts[1][1]
             b == ts[1][2]
             c == ts[1][3]
         IN  AddTriangles(NewTriangle(H, EdgeOf(a, b), EdgeOf(b, c), EdgeOf(c, a),
                                      a, b, c, ts[1][4]), Tail(ts))

BoxVertex(x, y) ==
    [x |-> x, y |-> y, w |-> 1, pid |-> -1, toPrev |-> NULL, toNext |-> NULL]

RingVertex(x, y) ==
    [x |-> x, y |-> y, w |-> 1, pid |-> 0, toPrev |-> NULL, toNext |-> NULL]

InitialVertices ==
    <<BoxVertex(0, 0), BoxVertex(12, 0), BoxVertex(12, 12), BoxVertex(0, 12),
      RingVertex(4, 4), RingVertex(8, 4), RingVertex(8, 8), RingVertex(4, 8)>>

InitialEdges ==
    <<<<1, 2, "FRAME">>, <<2, 3, "FRAME">>, <<3, 4, "FRAME">>, <<4, 1, "FRAME">>,
      <<5, 6, "POLYGON">>, <<6, 7, "POLYGON">>, <<7, 8, "POLYGON">>, <<8, 5, "POLYGON">>,
      <<5, 7, "TRIANGULATION">>,
      <<1, 5, "TRIANGULATION">>, <<1, 6, "TRIANGULATION">>,
      <<2, 6, "TRIANGULATION">>, <<2, 7, "TRIANGULATION">>,
      <<3, 7, "TRIANGULATION">>, <<3, 8, "TRIANGULATION">>,
      <<4, 8, "TRIANGULATION">>, <<4, 5, "TRIANGULATION">>>>

InitialTriangles ==
    <<<<5, 6, 7, TRUE>>, <<5, 7, 8, TRUE>>,
      <<1, 2, 6, FALSE>>, <<1, 6, 5, FALSE>>, <<2, 3, 7, FALSE>>, <<2, 7, 6, FALSE>>,
      <<3, 4, 8, FALSE>>, <<3, 8, 7, FALSE>>, <<4, 1, 5, FALSE>>, <<4, 5, 8, FALSE>>>>

\* The triangulation of a scene: the vertices vs (the box first), the ring of
\* the polygon, the edges and the triangles in the order of their creation
Scene(vs, ring, es, ts) ==
    AddTriangles(
        AddEdges([V |-> vs, L |-> ring, P |-> (0 :> ring), E |-> << >>, T |-> << >>,
                  n |-> 0, err |-> 0],
                 es),
        ts)

InitialHeap == Scene(InitialVertices, <<5, 6, 7, 8>>, InitialEdges, InitialTriangles)

\* A simple polygon of seven vertices (5..11, counter-clockwise) with a reflex
\* chain 6, 7, 8 in front of the vertex 5, triangulated inside its bounding
\* box: the state of the triangulation the runs with translations by
\* retriangulation start in.
RetriangulationVertices ==
    <<BoxVertex(-28, -20), BoxVertex(16, -20), BoxVertex(16, 12), BoxVertex(-28, 12),
      RingVertex(0, 0), RingVertex(-16, 0), RingVertex(-4, 1), RingVertex(4, 4),
      RingVertex(-24, 8), RingVertex(-12, -12), RingVertex(0, -16)>>

RetriangulationEdges ==
    <<<<1, 2, "FRAME">>, <<2, 3, "FRAME">>, <<3, 4, "FRAME">>, <<4, 1, "FRAME">>,
      <<5, 6, "POLYGON">>, <<6, 7, "POLYGON">>, <<7, 8, "POLYGON">>, <<8, 9, "POLYGON">>,
      <<9, 10, "POLYGON">>, <<10, 11, "POLYGON">>, <<11, 5, "POLYGON">>,
      <<5, 10, "TRIANGULATION">>, <<6, 10, "TRIANGULATION">>,
      <<6, 9, "TRIANGULATION">>, <<7, 9, "TRIANGULATION">>,
      <<5, 7, "TRIANGULATION">>, <<5, 8, "TRIANGULATION">>, <<8, 11, "TRIANGULATION">>,
      <<8, 2, "TRIANGULATION">>, <<8, 3, "TRIANGULATION">>, <<8, 4, "TRIANGULATION">>,
      <<9, 4, "TRIANGULATION">>, <<9, 1, "TRIANGULATION">>, <<10, 1, "TRIANGULATION">>,
      <<11, 1, "TRIANGULATION">>, <<11, 2, "TRIANGULATION">>>>

RetriangulationTriangles ==
    <<<<5, 6, 10, TRUE>>, <<5, 10, 11, TRUE>>, <<6, 9, 10, TRUE>>, <<6, 7, 9, TRUE>>,
      <<7, 8, 9, TRUE>>,
      <<5, 6, 7, FALSE>>, <<5, 7, 8, FALSE>>, <<5, 8, 11, FALSE>>, <<8, 11, 2, FALSE>>,
      <<8, 2, 3, FALSE>>, <<8, 3, 4, FALSE>>, <<8, 4, 9, FALSE>>, <<9, 4, 1, FALSE>>,
      <<9, 1, 10, FALSE>>, <<10, 1, 11, FALSE>>, <<1, 2, 11, FALSE>>>>

RetriangulationHeap ==
    Scene(RetriangulationVertices, <<5, 6, 7, 8, 9, 10, 11>>, RetriangulationEdges,
          RetriangulationTriangles)

Init ==
    /\ kinetic \in BOOLEAN
    /\ LET H == IF kinetic THEN InitialHeap ELSE RetriangulationHeap
       IN  /\ vertices = H.V
           /\ vertexList = H.L
           /\ polygons = H.P
           /\ edges = H.E
           /\ triangles = H.T
           /\ created = H.n
           /\ exitCode = H.err
    /\ pc = "idle"
    /\ tr = NoTranslation
    /\ outer = NoTranslation
    /\ nOps = 0
    /\ ComponentsAtRest

(***************************************************************************)
(* Insertion of a vertex into a polygon edge                               *)
(***************************************************************************)
\* The squared length of an edge is positive: Insertion::checkStability with
\* exact arithmetic accepts every edge between two distinct points.
CheckStability(H, e) ==
    LET a == Pos(H, H.E[e].v0)
        b == Pos(H, H.E[e].v1)
    IN  a # b

\* Insertion::execute for the edge e from v0 to its successor v1 in ring pID.
\* The new triangles are on the side of the triangle they replace.
InsertionExecuteOn(H, pID, e) ==
    LET v0 == H.E[e].v0
        v1 == H.E[e].v1
        newV == NewVertexId(H)
        mid == PScale(PAdd(Pos(H, v0), Pos(H, v1)), 1, 2)
        t0 == H.E[e].t0
        t1 == H.E[e].t1
    IN  IF t0 = NULL \/ t1 = NULL THEN Fail(H, SegFault)
        ELSE
        LET other0 == OtherVertex(t0, e)
            other1 == OtherVertex(t1, e)
            internal0 == H.T[t0].internal
            internal1 == H.T[t1].internal
            H1 == AddVertex(H, mid, pID)
            H2 == DeleteEdge(H1, e)
            fromV0ToOther0 == GetEdgeTo(H2, v0, other0)
            fromV0ToOther1 == GetEdgeTo(H2, v0, other1)
            fromV1ToOther0 == GetEdgeTo(H2, v1, other0)
            fromV1ToOther1 == GetEdgeTo(H2, v1, other1)
            H3 == NewEdge(H2, v0, newV, "POLYGON")
            H4 == NewEdge(H3, newV, v1, "POLYGON")
            H5 == NewEdge(H4, newV, other0, "TRIANGULATION")
            H6 == NewEdge(H5, newV, other1, "TRIANGULATION")
            fromV0ToNew == EdgeOf(v0, newV)
            fromV1ToNew == EdgeOf(newV, v1)
            fromNewToOther0 == EdgeOf(newV, other0)
            fromNewToOther1 == EdgeOf(newV, other1)
            H7 == NewTriangle(H6, fromV0ToNew, fromV0ToOther0, fromNewToOther0,
                              v0, newV, other0, internal0)
            H8 == NewTriangle(H7, fromV0ToNew, fromV0ToOther1, fromNewToOther1,
                              v0, newV, other1, internal1)
            H9 == NewTriangle(H8, fromV1ToNew, fromV1ToOther0, fromNewToOther0,
                              v1, newV, other0, internal0)
        IN  NewTriangle(H9, fromV1ToNew, fromV1ToOther1, fromNewToOther1,
                        v1, newV, other1, internal1)

\* growPolygonBy: one insertion into the edge behind the index-th vertex of
\* ring pID, if the edge passes the stability check.
InsertionExecute ==
    /\ pc = "idle"
    /\ UNCHANGED componentVars
    /\ UNCHANGED kinetic
    /\ exitCode = 0
    /\ nOps < MaxOps
    /\ \E pID \in DOMAIN polygons : \E index \in 1..Len(polygons[pID]) :
          LET v0 == polygons[pID][index]
              e == vertices[v0].toNext
          IN  /\ CheckStability(Heap, e)
              /\ SetHeap(InsertionExecuteOn(Heap, pID, e))
    /\ nOps' = nOps + 1
    /\ UNCHANGED <<pc, tr, outer>>

(***************************************************************************)
(* Insertion of a hole into an internal triangle                           *)
(***************************************************************************)
\* The vertex of the hole next to corner a of the triangle (a, b, c): the
\* middle between a and the mean of the three corners.
HoleVertex(a, b, c) == PScale(PAdd(a, PScale(PAdd(PAdd(a, b), c), 1, 3)), 1, 2)

\* insertHole for the internal triangle t.
InsertHoleInto(H, t) ==
    LET v0 == H.T[t].v[1]
        v1 == H.T[t].v[2]
        v2 == H.T[t].v[3]
        e0 == GetEdgeTo(H, v0, v1)
        e1 == GetEdgeTo(H, v1, v2)
        e2 == GetEdgeTo(H, v2, v0)
        H1 == DeleteTriangle(H, t)
        index == Cardinality(DOMAIN H.P \ {0}) + 1
        H2 == [H1 EXCEPT !.P = (index :> << >>) @@ @]
        holeV0 == NewVertexId(H2)
        holeV1 == holeV0 + 1
        holeV2 == holeV0 + 2
        H3 == AddVertex(H2, HoleVertex(Pos(H, v0), Pos(H, v1), Pos(H, v2)), index)
        H4 == AddVertex(H3, HoleVertex(Pos(H, v1), Pos(H, v2), Pos(H, v0)), index)
        H5 == AddVertex(H4, HoleVertex(Pos(H, v2), Pos(H, v0), Pos(H, v1)), index)
        H6 == AddEdges(H5, <<<<holeV0, holeV1, "POLYGON">>, <<holeV1, holeV2, "POLYGON">>,
                             <<holeV2, holeV0, "POLYGON">>>>)
        holeE0 == EdgeOf(holeV0, holeV1)
        holeE1 == EdgeOf(holeV1, holeV2)
        holeE2 == EdgeOf(holeV2, holeV0)
        H7 == NewTriangle(H6, holeE0, holeE1, holeE2, holeV0, holeV1, holeV2, FALSE)
        H8 == AddEdges(H7, <<<<v0, holeV0, "TRIANGULATION">>, <<v1, holeV1, "TRIANGULATION">>,
                             <<v2, holeV2, "TRIANGULATION">>>>)
        con0 == EdgeOf(v0, holeV0)
        con1 == EdgeOf(v1, holeV1)
        con2 == EdgeOf(v2, holeV2)
        \* First third
        H9 == NewEdge(H8, v0, holeV1, "TRIANGULATION")
        H10 == NewTriangle(H9, con0, holeE0, EdgeOf(v0, holeV1), v0, holeV0, holeV1, TRUE)
        H11 == NewTriangle(H10, EdgeOf(v0, holeV1), e0, con1, v0, v1, holeV1, TRUE)
        \* Second third
        H12 == NewEdge(H11, v1, holeV2, "TRIANGULATION")
        H13 == NewTriangle(H12, con1, holeE1, EdgeOf(v1, holeV2), v1, holeV1, holeV2, TRUE)
        H14 == NewTriangle(H13, EdgeOf(v1, holeV2), e1, con2, v1, v2, holeV2, TRUE)
        \* Third third
        H15 == NewEdge(H14, v2, holeV0, "TRIANGULATION")
        H16 == NewTriangle(H15, con2, holeE2, EdgeOf(v2, holeV0), v2, holeV2, holeV0, TRUE)
    IN  NewTriangle(H16, EdgeOf(v2, holeV0), e2, con0, v2, v0, holeV0, TRUE)

\* One hole insertion of the strategy, into any internal triangle, as long as
\* fewer than Settings::nrInnerPolygons holes exist. The run with translations
\* by retriangulation is one of a strategy without holes.
InsertHole ==
    /\ pc = "idle"
    /\ UNCHANGED componentVars
    /\ kinetic
    /\ UNCHANGED kinetic
    /\ exitCode = 0
    /\ nOps < MaxOps
    /\ Cardinality(DOMAIN polygons \ {0}) < nrInnerPolygons
    /\ \E t \in DOMAIN triangles :
          /\ triangles[t].internal
          /\ SetHeap(InsertHoleInto(Heap, t))
    /\ nOps' = nOps + 1
    /\ UNCHANGED <<pc, tr, outer>>

(***************************************************************************)
(* The steps of a kinetic translation                                      *)
(***************************************************************************)
\* The translation vectors tried by transformPolygonByMoves
Deltas ==
    {[x |-> 2, y |-> 0, w |-> 1], [x |-> -2, y |-> 0, w |-> 1],
     [x |-> 0, y |-> 2, w |-> 1], [x |-> 0, y |-> -2, w |-> 1],
     [x |-> 2, y |-> 2, w |-> 1], [x |-> -2, y |-> 2, w |-> 1],
     [x |-> 2, y |-> -2, w |-> 1], [x |-> -2, y |-> -2, w |-> 1],
     [x |-> -8, y |-> 8, w |-> 1], [x |-> -7, y |-> 5, w |-> 1],
     [x |-> -4, y |-> 1, w |-> 1]}

\* The start of TranslationKinetic::execute without a split: the initial
\* event queue is generated and stabilised; the translation is rejected if
\* the queue is not stable or a security flip was needed.
BeginExecute(H, t0) ==
    LET Generated(G) ==
            /\ SetHeap(G.H)
            /\ IF G.ok
               THEN /\ \E S \in SUBSET SwitchPositions(G.tr.Q) :
                           tr' = [G.tr EXCEPT !.Q = Switched(@, S)]
                    /\ pc' = "events"
               ELSE /\ tr' = [G.tr EXCEPT !.ex = "REJECTED"]
                    /\ pc' = "destroy"
    IN  Generated(GenerateInitialQueue(H, [t0 EXCEPT !.snap = Snapshot(H)]))

\* transformPolygonByMoves: a translation is constructed for a vertex and a
\* vector, checked for an orientation change and for simplicity, and its
\* execution starts (TranslationKinetic::execute up to the first event).
TranslationStart ==
    /\ pc = "idle"
    /\ UNCHANGED componentVars
    /\ kinetic
    /\ UNCHANGED kinetic
    /\ exitCode = 0
    /\ nOps < MaxOps
    /\ nOps' = nOps + 1
    /\ \E index \in 1..Len(vertexList) : \E d \in Deltas :
          LET \* for the results of checkOrientation, of
              \* checkSimplicityOfTranslation and of checkEdge for the path
              Checked(H, t0, co, simple, path) ==
                  IF co.orientationChange \/ simple = "FALSE"
                  THEN /\ tr' = t0
                       /\ pc' = "destroy"
                       /\ UNCHANGED <<vertices, vertexList, polygons, edges, triangles,
                                      created, exitCode, outer>>
                  ELSE IF simple = "CRASH" \/ (~ co.split /\ path = "CRASH")
                  THEN /\ SetHeap(Fail(H, SegFault))
                       /\ UNCHANGED <<pc, tr, outer>>
                  ELSE IF co.split \/ path = "FALSE"
                  THEN /\ tr' = [t0 EXCEPT !.split = TRUE]
                       /\ pc' = "split"
                       /\ UNCHANGED <<vertices, vertexList, polygons, edges, triangles,
                                      created, exitCode, outer>>
                  ELSE /\ BeginExecute(H, t0)
                       /\ UNCHANGED outer
              Constructed(H, t0) ==
                  Checked(H, t0, CheckOrientation(H, t0),
                          CheckSimplicityOfTranslation(H, t0),
                          CheckEdge(H, t0.original, t0.oldV, t0.newV))
          IN  Constructed(Heap, [TranslationKinetic(Heap, vertexList[index], d, "DEFAULT")
                                    EXCEPT !.snap = Snapshot(Heap)])

\* An aborted translation that is not undone reports a rejection.
AbortResultRejected(undone) == IF undone THEN "UNDONE" ELSE "REJECTED"

\* The result of TranslationKinetic::execute after a flip has left the event
\* queue unstable: UNDONE if undo has restored the triangulation, else PARTIAL.
AbortResult(undone) == IF undone THEN "UNDONE" ELSE "PARTIAL"

\* One round of the loop of TranslationKinetic::execute: the next event is
\* taken from the queue and its triangle is flipped; if the queue is not
\* stable afterwards, the translation is aborted and undone if necessary.
KineticEvent ==
    /\ pc = "events"
    /\ UNCHANGED componentVars
    /\ UNCHANGED kinetic
    /\ exitCode = 0
    /\ tr.Q # << >>
    /\ LET \* for the result U of undo
           Aborted(U) ==
               /\ SetHeap(U.H)
               /\ tr' = [U.tr EXCEPT !.ex = AbortResult(U.undone)]
               /\ pc' = "destroy"
           \* for the result F of flip
           Flipped(F) ==
               IF F.H.err # 0 \/ F.ok
               THEN /\ SetHeap(F.H)
                    /\ \E S \in SUBSET SwitchPositions(F.tr.Q) :
                           tr' = [F.tr EXCEPT !.Q = Switched(@, S)]
                    /\ pc' = pc
               ELSE Aborted(Undo(F.H, F.tr))
           Taken(e) ==
               Flipped(Flip(Heap, [tr EXCEPT !.Q = Tail(@), !.actualTime = e.time,
                                             !.popped = Append(@, e)], e.t, FALSE))
       IN  Taken(Head(tr.Q))
    /\ UNCHANGED <<outer, nOps>>

\* The vertex stays where the last event has left it.
MoveToTargetStays(H, t) == H

\* The last statement of TranslationKinetic::execute before it returns FULL:
\* the vertex is moved to its target position.
MoveToTarget(H, t) == SetPosition(H, t.original, t.newV)

\* The end of TranslationKinetic::execute: all events are processed and the
\* vertex is moved to its target position.
KineticFinish ==
    /\ pc = "events"
    /\ UNCHANGED componentVars
    /\ UNCHANGED kinetic
    /\ exitCode = 0
    /\ tr.Q = << >>
    /\ SetHeap(MoveToTarget(Heap, tr))
    /\ tr' = [tr EXCEPT !.ex = "FULL"]
    /\ pc' = "destroy"
    /\ UNCHANGED <<outer, nOps>>

\* delete trans: the destructor of the translation in execution.  A part of
\* a split translation returns to the split translation.
Destroy ==
    /\ pc = "destroy"
    /\ UNCHANGED componentVars
    /\ UNCHANGED kinetic
    /\ exitCode = 0
    /\ \E stale \in BOOLEAN : SetHeap(Destructor(Heap, tr, stale))
    /\ pc' = IF outer = NoTranslation THEN "idle" ELSE "resume"
    /\ UNCHANGED <<tr, outer, nOps>>

\* The decision of TranslationKinetic::execute between the two kinds of split:
\* the vertex changes the side of the line through its neighbours.
ChangesSide(H, t) ==
    Signbit(Det(Pos(H, t.prevV), Pos(H, t.nextV), t.oldV))
        # Signbit(Det(Pos(H, t.prevV), Pos(H, t.nextV), t.newV))

\* The target of the first part of a split translation: the middle between
\* the neighbours if the vertex changes the side, else the intersection of
\* prevOldE with nextNewE or of nextOldE with prevNewE (NoPoint if there is
\* none).
SplitTarget(H, t) ==
    LET Or(prev, next, first) ==
            IF first # NoPoint THEN first
            ELSE GetIntersectionPoint(t.oldV, next, prev, t.newV)
        Between(prev, next) ==
            IF ChangesSide(H, t) THEN PScale(PAdd(prev, next), 1, 2)
            ELSE Or(prev, next, GetIntersectionPoint(prev, t.oldV, t.newV, next))
    IN  Between(Pos(H, t.prevV), Pos(H, t.nextV))

\* executeSplitRetainSide and executeSplitChangeSide up to the first event of
\* the first part; without an intersection point the translation is rejected.
SplitPart1 ==
    /\ pc = "split"
    /\ UNCHANGED componentVars
    /\ UNCHANGED kinetic
    /\ exitCode = 0
    /\ LET To(target) ==
               IF target = NoPoint
               THEN /\ tr' = [tr EXCEPT !.ex = "REJECTED"]
                    /\ pc' = "destroy"
                    /\ UNCHANGED <<vertices, vertexList, polygons, edges, triangles,
                                   created, exitCode, outer>>
               ELSE /\ outer' = [tr EXCEPT !.part = 1]
                    /\ BeginExecute(Heap, TranslationKinetic(Heap, tr.original,
                                                             PSub(target, tr.oldV),
                                                             "SPLIT_PART_1"))
       IN  To(SplitTarget(Heap, tr))
    /\ UNCHANGED nOps

\* The result of executeSplitRetainSide and executeSplitChangeSide after the
\* part with the result ex: a first part that is not fully executed gives its
\* result, a second part FULL or PARTIAL.
SplitResult(part, ex) == IF part = 1 \/ ex = "FULL" THEN ex ELSE "PARTIAL"

\* executeSplitRetainSide and executeSplitChangeSide after the end of a part:
\* after a first part that was fully executed, the security flip of the
\* triangle between the neighbours (if the vertex changes the side) and the
\* start of the second part; else the result of the split translation.
SplitResume ==
    /\ pc = "resume"
    /\ UNCHANGED componentVars
    /\ UNCHANGED kinetic
    /\ exitCode = 0
    /\ LET \* for the heap F after the security flip
           Second(F) ==
               IF F.err # 0
               THEN /\ SetHeap(F)
                    /\ UNCHANGED <<pc, tr, outer>>
               ELSE /\ outer' = [outer EXCEPT !.part = 2]
                    /\ BeginExecute(F, TranslationKinetic(F, outer.original,
                                         PSub(outer.newV, Pos(F, outer.original)),
                                         "SPLIT_PART_2"))
           Secured(e) ==
               Second(IF ChangesSide(Heap, outer) /\ e # NULL
                      THEN Flip(Heap, outer,
                                GetTriangleContaining(Heap, e, outer.original), TRUE).H
                      ELSE Heap)
       IN  IF outer.part = 1 /\ tr.ex = "FULL"
           THEN Secured(GetEdgeTo(Heap, outer.prevV, outer.nextV))
           ELSE /\ tr' = [outer EXCEPT !.part = 0,
                                       !.ex = SplitResult(outer.part, tr.ex)]
                /\ outer' = NoTranslation
                /\ pc' = "destroy"
                /\ UNCHANGED <<vertices, vertexList, polygons, edges, triangles,
                               created, exitCode>>
    /\ UNCHANGED nOps

(***************************************************************************)
(* The steps of a translation by retriangulation.  Followed are the        *)
(* translations refused by the checks of transformPolygonByMoves and the    *)
(* translations with a non-simple translation quadrilateral which end at   *)
(* the visibility check of bPSRC3SPOld; the other translations (side       *)
(* change, cases 1 and 2, case 3 inside of or visibly leaving the          *)
(* surrounding polygon) are not taken.                                     *)
(***************************************************************************)
\* buildPolygonsSideRemainCase3 up to the visibility check: a record
\* [H, aborted, p0] with the heap after bPSRC3OppositeDirection
BuildPolygonsSideRemainCase3(H, t) ==
    LET \* for the heap G and the polygon p0 left by bPSRC3OppositeDirection
        Visible(G, p0, visible) ==
            IF visible = "CRASH" THEN [H |-> Fail(G, SegFault), aborted |-> FALSE, p0 |-> p0]
            ELSE [H |-> G, aborted |-> visible = "FALSE", p0 |-> p0]
        \* for the walk w of bPSRC3SPOld
        Walked(G, p0, primaryV, secondaryV, w) ==
            IF w.t = NULL THEN [H |-> Fail(G, SegFault), aborted |-> FALSE, p0 |-> p0]
            ELSE IF Inside(G, w.t, t.newV) THEN [H |-> G, aborted |-> FALSE, p0 |-> p0]
            ELSE Visible(G, p0, CheckVisibility(G, t, OtherVertex(w.t, w.e),
                                                primaryV, secondaryV))
        From(G, p0, primaryV, secondaryV, first) ==
            Walked(G, p0, primaryV, secondaryV,
                   SPOldWalk(G, t, primaryV, first,
                             IF first = NULL THEN NULL
                             ELSE GetOtherEdgeContaining(G, first, t.original,
                                                         EdgeOf(t.original, primaryV)),
                             Cardinality(DOMAIN G.T)))
        First(G, p0, primaryV, secondaryV, primaryE, t0) ==
            From(G, p0, primaryV, secondaryV,
                 IF t0 = NULL \/ OtherVertex(t0, primaryE) = secondaryV
                 THEN G.E[primaryE].t1 ELSE t0)
        Opposite(O, primaryV, secondaryV, primaryE) ==
            IF O.H.err # 0 THEN [H |-> O.H, aborted |-> FALSE, p0 |-> O.p0]
            ELSE First(O.H, O.p0, primaryV, secondaryV, primaryE, O.H.E[primaryE].t0)
        Sides(primaryV, secondaryV) ==
            Opposite(BPSRC3OppositeDirection(H, t, primaryV, secondaryV),
                     primaryV, secondaryV, EdgeOf(t.original, primaryV))
        Order(prevFirst) ==
            Sides(IF prevFirst THEN t.prevV ELSE t.nextV,
                  IF prevFirst THEN t.nextV ELSE t.prevV)
    IN  Order(CheckIntersection(Pos(H, t.prevV), t.newV, t.oldV, Pos(H, t.nextV)) # "NONE")

\* TranslationRetriangulation::execute of an aborted translation: the vertex
\* stays, the polygon p0 is triangulated, the result is UNDONE.
ExecuteAborted(B) ==
    IF B.H.err # 0 \/ B.p0 = NoPolygon THEN B.H ELSE TriangulateVisible(B.H, B.p0)

\* transformPolygonByMoves with Settings::kinetic = false: the translation is
\* constructed with the components of the vector in the order dy, dx.
RetriangulationStart ==
    /\ pc = "idle"
    /\ UNCHANGED componentVars
    /\ ~kinetic
    /\ UNCHANGED kinetic
    /\ exitCode = 0
    /\ nOps < MaxOps
    /\ nOps' = nOps + 1
    /\ \E index \in 1..Len(vertexList) : \E d \in Deltas :
          LET case3(H, t0) ==
                  /\ ~ChangesSide(H, t0)
                  /\ ~InsideTriangle(Pos(H, t0.prevV), t0.oldV, Pos(H, t0.nextV), t0.newV)
                  /\ ~InsideTriangle(Pos(H, t0.prevV), t0.newV, Pos(H, t0.nextV), t0.oldV)
              \* execute for the result B of buildPolygonsSideRemainCase3
              Execute(t0, B) ==
                  /\ B.H.err # 0 \/ B.aborted
                  /\ SetHeap(ExecuteAborted(B))
                  /\ tr' = [t0 EXCEPT !.ex = "UNDONE"]
                  /\ pc' = "destroyed"
                  /\ UNCHANGED outer
              Checked(H, t0, orientationChange, simple) ==
                  IF orientationChange \/ simple = "FALSE"
                  THEN /\ tr' = t0
                       /\ pc' = "destroyed"
                       /\ UNCHANGED <<vertices, vertexList, polygons, edges, triangles,
                                      created, exitCode, outer>>
                  ELSE IF simple = "CRASH"
                  THEN /\ SetHeap(Fail(H, SegFault))
                       /\ UNCHANGED <<pc, tr, outer>>
                  ELSE /\ case3(H, t0)
                       /\ Execute(t0, BuildPolygonsSideRemainCase3(H, t0))
              Constructed(H, t0) ==
                  Checked(H, t0, BaseCheckOrientation(H, t0),
                          CheckSimplicityOfTranslation(H, t0))
          IN  Constructed(Heap, [TranslationKinetic(Heap, vertexList[index],
                                                    [x |-> d.y, y |-> d.x, w |-> d.w],
                                                    "DEFAULT")
                                    EXCEPT !.snap = Snapshot(Heap)])

\* TranslationRetriangulation::~TranslationRetriangulation: the check of the
\* surrounding polygon of the moving vertex (exit code 6)
DestructorRetriangulation(H, t) ==
    LET res == CheckSurroundingPolygon(H, t.original)
    IN  IF res = "FALSE" THEN Fail(H, 6) ELSE SurroundingFailure(H, res)

DestroyRetriangulation ==
    /\ pc = "destroyed"
    /\ UNCHANGED componentVars
    /\ UNCHANGED kinetic
    /\ exitCode = 0
    /\ SetHeap(DestructorRetriangulation(Heap, tr))
    /\ pc' = "idle"
    /\ UNCHANGED <<tr, outer, nOps>>

Next ==
    \/ InsertionExecute
    \/ InsertHole
    \/ TranslationStart
    \/ SplitPart1
    \/ KineticEvent
    \/ KineticFinish
    \/ Destroy
    \/ SplitResume
    \/ RetriangulationStart
    \/ DestroyRetriangulation

Spec == Init /\ [][Next]_vars

(***************************************************************************)
(* The selection tree on its own: objects are constructed and inserted,    *)
(* change their weight, are destroyed, and getRandomObject selects one.    *)
(***************************************************************************)

\* The triangulation at rest while a component is examined: the process is at
\* the position p, where no operation of the triangulation begins
AtRest(p) ==
    /\ kinetic = TRUE
    /\ vertices = InitialHeap.V
    /\ vertexList = InitialHeap.L
    /\ polygons = InitialHeap.P
    /\ edges = InitialHeap.E
    /\ triangles = InitialHeap.T
    /\ created = InitialHeap.n
    /\ exitCode = InitialHeap.err
    /\ pc = p
    /\ tr = NoTranslation
    /\ outer = NoTranslation
    /\ nOps = 0

InitTree ==
    /\ AtRest("selection")
    /\ \E w \in BOOLEAN : tree = EmptyTree(w, NoObjects)
    /\ sampled = NoObject
    /\ collapse = NoCollapse
    /\ checked = NoCheck
    /\ strategy = NoStrategy
    /\ attempt = NoAttempt
    /\ orientation = NoOrientation
    /\ chain = NoChain
    /\ growth = NoGrowth

\* The next object to construct
NextObject == CHOOSE o \in 1 .. MaxObjects :
                 /\ ~tree.O[o].alive /\ ~tree.O[o].destroyed
                 /\ \A q \in 1 .. o - 1 : tree.O[q].alive \/ tree.O[q].destroyed

\* The constructor of an object with the weight w, which inserts the object
\* into the tree (Triangulation::addEdge after new TEdge, the constructor of an
\* internal triangle)
ConstructObject ==
    /\ pc = "selection"
    /\ \E o \in 1 .. MaxObjects : ~tree.O[o].alive /\ ~tree.O[o].destroyed
    /\ \E w \in 1 .. MaxWeight :
          tree' = AddEdge([tree EXCEPT !.O[NextObject].weight = w,
                                       !.O[NextObject].alive = TRUE], NextObject)
    /\ UNCHANGED <<exceptTree, sampled>>

\* The destructor of an object
Destruct ==
    /\ pc = "selection"
    /\ \E o \in 1 .. MaxObjects :
          /\ tree.O[o].alive
          /\ tree' = DestroyObject(tree, o)
    /\ UNCHANGED <<exceptTree, sampled>>

\* The weight of an object is computed again (the edge has a new length, the
\* triangle other polygon edges) and its node is updated
UpdateObject ==
    /\ pc = "selection"
    /\ \E o \in 1 .. MaxObjects, w \in 1 .. MaxWeight :
          /\ tree.O[o].alive
          /\ tree' = UpdateSTEntry(tree, o, w)
    /\ UNCHANGED <<exceptTree, sampled>>

\* TPolygon::getRandomEdgeWeighted: one selection
Select ==
    /\ pc = "selection"
    /\ sampled' \in GetRandomObject(tree)
    /\ UNCHANGED <<exceptTree, tree>>

NextTree ==
    \/ ConstructObject
    \/ Destruct
    \/ UpdateObject
    \/ Select

SpecTree == InitTree /\ [][NextTree]_vars

\* Triangulation::addEdge once more for a POLYGON edge that is in the tree
AddEdgeAgain ==
    /\ pc = "selection"
    /\ Len(tree.N) <= MaxObjects
    /\ \E o \in 1 .. MaxObjects :
          /\ tree.O[o].alive
          /\ tree.O[o].entry # NoEntry
          /\ tree' = AddEdge(tree, o)
    /\ UNCHANGED <<exceptTree, sampled>>

\* The edges of a polygon are added, added once more and selected.
NextSelector ==
    \/ ConstructObject
    \/ Select
    \/ AddEdgeAgain

SpecSelector == InitTree /\ [][NextSelector]_vars

(***************************************************************************)
(* The time of one event in floating-point arithmetic: a triangle with the *)
(* vertices a, b (a with the smaller id) and the moving vertex, which      *)
(* starts at oldV and is translated by (dx, dy).  The coordinates are      *)
(* integers, and a, b and oldV are the corners of a triangle.              *)
(***************************************************************************)
Coordinates == {Time(k, 1) : k \in 0 .. MaxCoordinate}
Components == {Time(k, 1) : k \in (0 - MaxCoordinate) .. MaxCoordinate}
Points == [x : Coordinates, y : Coordinates]
Origins == {p \in Points : p.x.n <= MaxOrigin /\ p.y.n <= MaxOrigin}

InitCollapse ==
    /\ AtRest("collapse")
    /\ tree = EmptyTree(TRUE, NoObjects)
    /\ sampled = NoObject
    /\ checked = NoCheck
    /\ strategy = NoStrategy
    /\ attempt = NoAttempt
    /\ orientation = NoOrientation
    /\ chain = NoChain
    /\ growth = NoGrowth
    /\ \E a \in Origins, b, oldV \in Points, dx, dy \in Components :
          /\ (b.x.n - a.x.n) * (oldV.y.n - a.y.n)
                 # (b.y.n - a.y.n) * (oldV.x.n - a.x.n)
          /\ dx.n # 0 \/ dy.n # 0
          /\ collapse = [at |-> "input", a |-> a, b |-> b, oldV |-> oldV,
                         dx |-> dx, dy |-> dy, time |-> NaN]

\* The times that calculateCollapseTime can return for the triangle: the first
\* of the two other vertices in the order of the triangle is a or b
CollapseTimes(c) ==
    {CalculateCollapseTimeDouble(c.a, c.b, c.oldV, c.dx, c.dy),
     CalculateCollapseTimeDouble(c.b, c.a, c.oldV, c.dx, c.dy)}

\* TranslationKinetic::generateInitialQueue for one triangle of the moving
\* vertex that is not degenerate at the start: the triangle gets an event unless
\* the areas at the start and at the target have the same sign
QueueAtStart ==
    /\ pc = "collapse"
    /\ collapse.at = "input"
    /\ With2(DetDouble(collapse.a, collapse.b, collapse.oldV),
             DetDouble(collapse.a, collapse.b,
                       GetTranslated(collapse.oldV, collapse.dx, collapse.dy)),
         LAMBDA areaOld, areaNew :
           /\ areaOld.n # 0
           /\ ~(areaNew.n # 0 /\ (areaOld.n < 0) = (areaNew.n < 0))
           /\ \E t \in CollapseTimes(collapse) :
                 collapse' = [collapse EXCEPT !.at = "start", !.time = Corrected(t)])
    /\ UNCHANGED exceptCollapse

\* TranslationKinetic::insertAfterNonOppositeFlip for the new triangle of the
\* moving vertex, with the third vertex of the other new triangle at opposite
QueueAfterFlip ==
    /\ pc = "collapse"
    /\ collapse.at = "input"
    /\ With(GetTranslated(collapse.oldV, collapse.dx, collapse.dy), LAMBDA newV :
         /\ {opposite \in Points :
               SignbitDet(collapse.a, collapse.b, opposite)
                   = SignbitDet(collapse.a, collapse.b, newV)} # {}
         /\ \/ DetDouble(collapse.a, collapse.b, newV).n = 0
            \/ SignbitDet(collapse.a, collapse.b, collapse.oldV)
                   # SignbitDet(collapse.a, collapse.b, newV)
         /\ \E t \in CollapseTimes(collapse) :
               collapse' = [collapse EXCEPT !.at = "flip", !.time = t])
    /\ UNCHANGED exceptCollapse

NextCollapse ==
    \/ QueueAtStart
    \/ QueueAfterFlip

SpecCollapse == InitCollapse /\ [][NextCollapse]_vars

(***************************************************************************)
(* Triangulation::check on a triangulation with faults                     *)
(***************************************************************************)
\* The number of faults in one triangulation
MaxFaults == 2

\* The places a vertex is moved to by a fault
Places == {<<6, 6>>, <<5, 5>>, <<9, 6>>, <<8, 6>>, <<4, 2>>, <<4, 1>>, <<6, 5>>}

\* Vertex::check without the test of the number of polygon edges
VertexCheckLinks(H, v) ==
    IF H.V[v].pid = -1 THEN TRUE
    ELSE H.V[v].toPrev # NULL /\ H.V[v].toNext # NULL

\* Vertex::check
VertexCheck(H, v) ==
    IF H.V[v].pid = -1 THEN TRUE
    ELSE /\ Cardinality({e \in EdgesOf(H, v) : H.E[e].type = "POLYGON"}) = 2
         /\ H.V[v].toPrev # NULL
         /\ H.V[v].toNext # NULL

\* The loop of Triangulation::check over the edges
CheckEdges(H) ==
    \A e \in DOMAIN H.E :
        /\ NrAssignedTriangles(H.E[e]) = IF H.E[e].type = "FRAME" THEN 1 ELSE 2
        /\ H.E[e].v0 # H.E[e].v1

\* The loop of Triangulation::check over the vertices from the position i on;
\* Vertex::checkSurroundingPolygon ends the process at the first vertex where
\* it exits or follows a missing triangle.
RECURSIVE CheckVertices(_, _, _)
CheckVertices(H, i, ok) ==
    IF i > Len(H.L) THEN (IF ok THEN "TRUE" ELSE "FALSE")
    ELSE With2(ok /\ VertexCheck(H, H.L[i]), CheckSurroundingPolygon(H, H.L[i]),
               LAMBDA checkedV, part :
             IF part \in {"EXIT10", "CRASH"} THEN part
             ELSE CheckVertices(H, i + 1, checkedV /\ part = "TRUE"))

\* Triangulation::check: "TRUE", "FALSE", "EXIT10" or "CRASH"
Check(H, globalChecking) ==
    IF ~globalChecking THEN "TRUE"
    ELSE CheckVertices(H, 1, CheckEdges(H))

InitCheck ==
    /\ AtRest("check")
    /\ tree = EmptyTree(TRUE, NoObjects)
    /\ sampled = NoObject
    /\ collapse = NoCollapse
    /\ \E g \in BOOLEAN : checked = [NoCheck EXCEPT !.globalChecking = g]
    /\ strategy = NoStrategy
    /\ attempt = NoAttempt
    /\ orientation = NoOrientation
    /\ chain = NoChain
    /\ growth = NoGrowth

\* A fault may still happen
Faulty == pc = "check" /\ checked.result = "NONE" /\ checked.faults < MaxFaults

\* Fault: an edge loses one of its triangles
LoseTriangle ==
    /\ Faulty
    /\ \E e \in DOMAIN edges :
          \/ edges[e].t0 # NULL /\ edges' = [edges EXCEPT ![e].t0 = NULL]
          \/ edges[e].t1 # NULL /\ edges' = [edges EXCEPT ![e].t1 = NULL]
    /\ checked' = [checked EXCEPT !.faults = @ + 1]
    /\ UNCHANGED <<vertices, vertexList, polygons, triangles, created, exitCode, kinetic,
                   pc, tr, outer, nOps, tree, sampled, collapse, strategy, attempt,
                   orientation, chain, growth>>

\* Fault: an edge of the polygon becomes an edge of the triangulation or an
\* edge of the triangulation an edge of the polygon
Retype ==
    /\ Faulty
    /\ \E e \in DOMAIN edges :
          /\ edges[e].type # "FRAME"
          /\ edges' = [edges EXCEPT ![e].type =
                          IF @ = "POLYGON" THEN "TRIANGULATION" ELSE "POLYGON"]
    /\ checked' = [checked EXCEPT !.faults = @ + 1]
    /\ UNCHANGED <<vertices, vertexList, polygons, triangles, created, exitCode, kinetic,
                   pc, tr, outer, nOps, tree, sampled, collapse, strategy, attempt,
                   orientation, chain, growth>>

\* Fault: a vertex loses its edge to the previous or to the next vertex
Unlink ==
    /\ Faulty
    /\ \E i \in 1 .. Len(vertexList) :
          \/ vertices' = [vertices EXCEPT ![vertexList[i]].toPrev = NULL]
          \/ vertices' = [vertices EXCEPT ![vertexList[i]].toNext = NULL]
    /\ vertices' # vertices
    /\ checked' = [checked EXCEPT !.faults = @ + 1]
    /\ UNCHANGED <<vertexList, polygons, edges, triangles, created, exitCode, kinetic,
                   pc, tr, outer, nOps, tree, sampled, collapse, strategy, attempt,
                   orientation, chain, growth>>

\* Fault: the edges to the previous and to the next vertex are exchanged
Relink ==
    /\ Faulty
    /\ \E i \in 1 .. Len(vertexList) :
          vertices' = [vertices EXCEPT ![vertexList[i]].toPrev = vertices[vertexList[i]].toNext,
                                       ![vertexList[i]].toNext = vertices[vertexList[i]].toPrev]
    /\ checked' = [checked EXCEPT !.faults = @ + 1]
    /\ UNCHANGED <<vertexList, polygons, edges, triangles, created, exitCode, kinetic,
                   pc, tr, outer, nOps, tree, sampled, collapse, strategy, attempt,
                   orientation, chain, growth>>

\* Fault: a vertex is at another place
Displace ==
    /\ Faulty
    /\ \E i \in 1 .. Len(vertexList), p \in Places :
          /\ \A v \in DOMAIN vertices : <<vertices[v].x, vertices[v].y>> # p
          /\ vertices' = [vertices EXCEPT ![vertexList[i]].x = p[1],
                                          ![vertexList[i]].y = p[2]]
    /\ checked' = [checked EXCEPT !.faults = @ + 1]
    /\ UNCHANGED <<vertexList, polygons, edges, triangles, created, exitCode, kinetic,
                   pc, tr, outer, nOps, tree, sampled, collapse, strategy, attempt,
                   orientation, chain, growth>>

\* The call of Triangulation::check
GlobalCheck ==
    /\ pc = "check"
    /\ checked.result = "NONE"
    /\ checked' = [checked EXCEPT !.result = Check(Heap, checked.globalChecking)]
    /\ UNCHANGED <<programVars, tree, sampled, collapse, strategy, attempt, orientation,
                   chain, growth>>

NextCheck ==
    \/ LoseTriangle
    \/ Retype
    \/ Unlink
    \/ Relink
    \/ Displace
    \/ GlobalCheck

SpecCheck == InitCheck /\ [][NextCheck]_vars

(***************************************************************************)
(* The strategies with holes: the numbers of vertices of the polygons      *)
(***************************************************************************)
\* The number of holes
MaxHoles == 2

\* The number of passes of the doubling loop
PassLimit == 20

\* Settings::outerSize, Settings::innerSizes and Settings::initialSize
OuterSizes == {3, 10, 12, 25, 100, 11000000}
InnerSizes == {3, 10, 50, 21000000}
InitialSizes == {3, 10, 20}

\* a >= (unsigned int) x for an unsigned a below 2^31 and an int x
UnsignedGeq(a, x) == x >= 0 /\ a >= x

\* growPolygonBy: the number of vertices of a polygon of the given size after
\* n insertions (the loop counts the executed insertions only)
GrowPolygonBy(size, n) == IF n > 0 THEN size + n ELSE size

\* The number of insertions of one polygon in a pass of the doubling loop
NrInsertions(target, actualN) ==
    IF UnsignedGeq(target, 2 * actualN) THEN actualN ELSE target - actualN

\* The sizes of the holes after the loop over the holes in one pass
DoubledInner(S) ==
    [i \in 1 .. Len(S.inner) |->
        GrowPolygonBy(S.inner[i], NrInsertions(S.innerSizes[i], S.inner[i]))]

RECURSIVE SumOf(_)
SumOf(q) == IF q = << >> THEN 0 ELSE q[1] + SumOf(Tail(q))

\* One pass of the doubling loop
Pass(S) ==
    [S EXCEPT !.inner = DoubledInner(S),
              !.outer = GrowPolygonBy(S.outer, NrInsertions(S.outerSize, S.outer)),
              !.performed =
                  SumOf([i \in 1 .. Len(S.inner) |->
                            NrInsertions(S.innerSizes[i], S.inner[i])])
                  + NrInsertions(S.outerSize, S.outer),
              !.k = @ + 1]

\* The settings accepted by Settings::checkAndApplySettings and the start of
\* a strategy: strategyWithHoles0 starts with the holes in the polygon,
\* strategyWithHoles1 without them.
InitStrategy ==
    /\ AtRest("strategy")
    /\ tree = EmptyTree(TRUE, NoObjects)
    /\ sampled = NoObject
    /\ collapse = NoCollapse
    /\ checked = NoCheck
    /\ attempt = NoAttempt
    /\ orientation = NoOrientation
    /\ chain = NoChain
    /\ growth = NoGrowth
    /\ \E atStart \in BOOLEAN, n \in 1 .. MaxHoles, o \in OuterSizes, initial \in InitialSizes :
          /\ initial <= o
          /\ \E sizes \in [1 .. n -> InnerSizes] :
                strategy = [at |-> IF atStart THEN "loop" ELSE "grow",
                            holeInsertionAtStart |-> atStart,
                            nrInnerPolygons |-> n,
                            outerSize |-> o,
                            innerSizes |-> sizes,
                            outer |-> initial,
                            inner |-> IF atStart THEN [i \in 1 .. n |-> 3] ELSE << >>,
                            atFirstHole |-> 0,
                            performed |-> 1,
                            k |-> 0]

\* strategyWithHoles1: the growth of the outer polygon before the holes
GrowOuter ==
    /\ pc = "strategy"
    /\ strategy.at = "grow"
    /\ LET actualN == strategy.outer
           k == strategy.nrInnerPolygons
           nrInsertions == IF UnsignedGeq(strategy.outerSize, 10 * k - actualN)
                           THEN 5 * k - actualN
                           ELSE strategy.outerSize - actualN
       IN  strategy' = [strategy EXCEPT !.outer = GrowPolygonBy(actualN, nrInsertions),
                                        !.at = "holes"]
    /\ UNCHANGED exceptStrategy

\* strategyWithHoles1: insertHole, which makes a polygon of three vertices
InsertHoleOfStrategy ==
    /\ pc = "strategy"
    /\ strategy.at = "holes"
    /\ Len(strategy.inner) < strategy.nrInnerPolygons
    /\ strategy' = [strategy EXCEPT !.inner = Append(@, 3),
                                    !.atFirstHole = IF strategy.inner = << >>
                                                    THEN strategy.outer ELSE @]
    /\ UNCHANGED exceptStrategy

\* strategyWithHoles1: the growth of the holes to 20 vertices
GrowHoles ==
    /\ pc = "strategy"
    /\ strategy.at = "holes"
    /\ Len(strategy.inner) = strategy.nrInnerPolygons
    /\ strategy' = [strategy EXCEPT
           !.inner = [i \in 1 .. Len(strategy.inner) |->
                         GrowPolygonBy(strategy.inner[i],
                                       IF strategy.innerSizes[i] >= 20 THEN 17
                                       ELSE strategy.innerSizes[i] - 3)],
           !.at = "loop"]
    /\ UNCHANGED exceptStrategy

\* One pass of the doubling loop of strategyWithHoles0 and strategyWithHoles1
DoublingPass ==
    /\ pc = "strategy"
    /\ strategy.at = "loop"
    /\ strategy.performed # 0 /\ strategy.k < PassLimit
    /\ strategy' = Pass(strategy)
    /\ UNCHANGED exceptStrategy

\* The end of the doubling loop
EndOfDoubling ==
    /\ pc = "strategy"
    /\ strategy.at = "loop"
    /\ ~(strategy.performed # 0 /\ strategy.k < PassLimit)
    /\ strategy' = [strategy EXCEPT !.at = "done"]
    /\ UNCHANGED exceptStrategy

NextStrategy ==
    \/ GrowOuter
    \/ InsertHoleOfStrategy
    \/ GrowHoles
    \/ DoublingPass
    \/ EndOfDoubling

SpecStrategy == InitStrategy /\ [][NextStrategy]_vars

(***************************************************************************)
(* Insertion::translate: the attempts to move the new vertex               *)
(***************************************************************************)
\* Settings::insertionTries
insertionTries == 100

\* enum class Executed
Executed == {"FULL", "REJECTED", "PARTIAL", "UNDONE"}

\* A loop that goes on until a translation was executed in full or in part
RetryUnlessMoved(a) == a.outcome \notin {"FULL", "PARTIAL"} /\ a.count < insertionTries

\* The condition of the loop of Insertion::translate
Retry(a) == ~a.simple /\ a.count < insertionTries

\* Insertion::translate is called for the vertex of an executed insertion.
InitTranslate ==
    /\ AtRest("translate")
    /\ tree = EmptyTree(TRUE, NoObjects)
    /\ sampled = NoObject
    /\ collapse = NoCollapse
    /\ checked = NoCheck
    /\ strategy = NoStrategy
    /\ orientation = NoOrientation
    /\ chain = NoChain
    /\ growth = NoGrowth
    /\ attempt = [at |-> "loop", count |-> 0, simple |-> FALSE, executed |-> 0,
                  outcome |-> "NONE"]

\* One round of the loop: a translation with a random vector is constructed;
\* unless it rolls over an edge it is checked for simplicity, and a simple
\* one is executed with one of the results of Translation::execute, which is
\* not looked at.
TranslateAttempt ==
    /\ pc = "translate"
    /\ attempt.at = "loop"
    /\ Retry(attempt)
    /\ \E overroll \in BOOLEAN, simple \in BOOLEAN, result \in Executed :
          attempt' =
              IF overroll THEN [attempt EXCEPT !.count = @ + 1]
              ELSE IF ~simple THEN [attempt EXCEPT !.count = @ + 1, !.simple = FALSE]
              ELSE [attempt EXCEPT !.count = @ + 1, !.simple = TRUE,
                                   !.executed = @ + 1, !.outcome = result]
    /\ UNCHANGED exceptAttempt

\* The loop has ended.
TranslateReturn ==
    /\ pc = "translate"
    /\ attempt.at = "loop"
    /\ ~Retry(attempt)
    /\ attempt' = [attempt EXCEPT !.at = "done"]
    /\ UNCHANGED exceptAttempt

NextTranslate ==
    \/ TranslateAttempt
    \/ TranslateReturn

SpecTranslate == InitTranslate /\ [][NextTranslate]_vars

(***************************************************************************)
(* checkOrientation for the translations of the vertices of a polygon      *)
(***************************************************************************)
\* The largest component of a translation vector
MaxShift == 12

Shifts == {[x |-> dx, y |-> dy, w |-> 1] : dx, dy \in -MaxShift .. MaxShift} \
          {[x |-> 0, y |-> 0, w |-> 1]}

\* The polygon of the start or the polygon of seven vertices; the translation
\* is kinetic in the first and by retriangulation in the second.
InitOrientation ==
    /\ kinetic \in BOOLEAN
    /\ LET H == IF kinetic THEN InitialHeap ELSE RetriangulationHeap
       IN  /\ vertices = H.V
           /\ vertexList = H.L
           /\ polygons = H.P
           /\ edges = H.E
           /\ triangles = H.T
           /\ created = H.n
           /\ exitCode = H.err
    /\ pc = "orientation"
    /\ tr = NoTranslation
    /\ outer = NoTranslation
    /\ nOps = 0
    /\ tree = EmptyTree(TRUE, NoObjects)
    /\ sampled = NoObject
    /\ collapse = NoCollapse
    /\ checked = NoCheck
    /\ strategy = NoStrategy
    /\ attempt = NoAttempt
    /\ orientation = [at |-> "start"]
    /\ chain = NoChain
    /\ growth = NoGrowth

\* transformPolygonByMoves: a translation is constructed for a vertex and a
\* vector.
ConstructTranslation ==
    /\ pc = "orientation"
    /\ orientation.at = "start"
    /\ \E index \in 1 .. Len(vertexList), d \in Shifts :
          orientation' = [at |-> "constructed",
                          tr |-> TranslationKinetic(Heap, vertexList[index], d, "DEFAULT")]
    /\ UNCHANGED exceptOrientation

\* The call of checkOrientation for the translation
OrientationChecked ==
    /\ pc = "orientation"
    /\ orientation.at = "constructed"
    /\ orientation' =
           [at |-> "checked",
            tr |-> orientation.tr,
            orientationChange |->
                IF kinetic THEN CheckOrientation(Heap, orientation.tr).orientationChange
                ELSE BaseCheckOrientation(Heap, orientation.tr)]
    /\ UNCHANGED exceptOrientation

NextOrientation ==
    \/ ConstructTranslation
    \/ OrientationChecked

SpecOrientation == InitOrientation /\ [][NextOrientation]_vars

(***************************************************************************)
(* Polygon: the chain of a sub-polygon that is built by addVertex, addEdge *)
(* and close and then triangulated.  The record chain holds the fields of  *)
(* the Polygon (type, n, closed, kernel, lastVUsed and lastEUsed as "is    *)
(* not NULL"), the positions v of the vertices of the chain in the order   *)
(* of the calls, the calls made and, after triangulate, the triangles T    *)
(* in the order of their creation, as triples of indices of v, and the     *)
(* number of edges created.                                                *)
(***************************************************************************)
\* The largest coordinates of the vertices of a chain and the largest number
\* of vertices of a chain
MaxX == 2
MaxY == 2
MaxChain == 5

ChainPlaces == {Pt(x, y) : x \in 0 .. MaxX, y \in 0 .. MaxY}

\* The points a kernel is taken from: the points with coordinates that are
\* multiples of one half
KernelPlaces == {Norm([x |-> x, y |-> y, w |-> 2]) : x \in 0 .. 2 * MaxX, y \in 0 .. 2 * MaxY}

\* The i-th vertex of the closed chain q, cyclically
ChainAt(q, i) == q[((i - 1) % Len(q)) + 1]

\* The segment from a to b meets none of the edges of the open chain q but
\* the last, which it meets only in a, the end of q.
Continues(q, b) ==
    LET n == Len(q)
    IN  /\ \A i \in 1 .. n : q[i] # b
        /\ \A i \in 1 .. n - 2 : CheckIntersection(q[n], b, q[i], q[i + 1]) = "NONE"
        /\ n >= 2 => ~(Det(q[n - 1], q[n], b) = 0 /\ (IsBetween(q[n - 1], q[n], b)
                                                       \/ IsBetween(q[n], b, q[n - 1])))

\* The closed chain q is a simple polygon: the edge that closes it meets no
\* other edge of the chain.
SimpleChain(q) ==
    LET n == Len(q)
    IN  /\ n >= 3
        /\ \A i \in 2 .. n - 2 : CheckIntersection(q[n], q[1], q[i], q[i + 1]) = "NONE"
        /\ ~(Det(q[n - 1], q[n], q[1]) = 0 /\ (IsBetween(q[n - 1], q[n], q[1])
                                                \/ IsBetween(q[n], q[1], q[n - 1])))
        /\ ~(Det(q[n], q[1], q[2]) = 0 /\ (IsBetween(q[n], q[1], q[2])
                                            \/ IsBetween(q[1], q[2], q[n])))

\* Twice the signed area of the closed chain q
RECURSIVE ChainArea(_, _)
ChainArea(q, i) ==
    IF i > Len(q) THEN 0
    ELSE Det(Pt(0, 0), q[i], ChainAt(q, i + 1)) + ChainArea(q, i + 1)

\* The simple polygon q is star-shaped with k in the interior of its kernel:
\* k is strictly on the inner side of every edge.
StarShaped(q, k) ==
    /\ SimpleChain(q)
    /\ \/ \A i \in 1 .. Len(q) : Det(q[i], ChainAt(q, i + 1), k) > 0
       \/ \A i \in 1 .. Len(q) : Det(q[i], ChainAt(q, i + 1), k) < 0

\* The points at one, two and three quarters of the base edge, the edge from
\* the last to the first vertex of the chain
BasePoints(q) ==
    LET a == q[Len(q)]
        b == q[1]
    IN  {[x |-> k * a.x + (4 - k) * b.x, y |-> k * a.y + (4 - k) * b.y, w |-> 4] : k \in 1 .. 3}

\* The vertex i of the simple polygon q sees the point p of the base edge
\* through the interior of the polygon: the segment leaves the vertex into
\* the interior and meets no edge on its way.
Sees(q, i, p) ==
    LET n == Len(q)
        s == IF ChainArea(q, 1) > 0 THEN 1 ELSE -1
        turn == s * Det(ChainAt(q, i + n - 1), q[i], ChainAt(q, i + 1))
        afterPrev == s * Det(ChainAt(q, i + n - 1), q[i], p) > 0
        beforeNext == s * Det(q[i], ChainAt(q, i + 1), p) > 0
    IN  /\ Det(q[n], q[1], q[i]) # 0
        /\ IF turn > 0 THEN afterPrev /\ beforeNext
           ELSE IF turn < 0 THEN afterPrev \/ beforeNext
           ELSE beforeNext
        /\ \A j \in 1 .. n - 1 :
              j \notin {i - 1, i} => CheckIntersection(q[i], p, q[j], q[j + 1]) = "NONE"

\* The simple polygon q is edge-visible: every vertex that is no end of the
\* base edge sees a point of the base edge through the interior.
EdgeVisible(q) ==
    /\ SimpleChain(q)
    /\ \A i \in 2 .. Len(q) - 1 : \E p \in BasePoints(q) : Sees(q, i, p)

\* The constructor of Polygon
NewChain(tp) ==
    [at |-> "open", type |-> tp, n |-> 0, closed |-> FALSE, lastVUsed |-> FALSE,
     lastEUsed |-> FALSE, kernel |-> NoPoint, v |-> << >>, calls |-> << >>,
     exit |-> 0, T |-> << >>, newEdges |-> 0]

\* exit(code): the process ends and the chain with it.
ChainExit(c, call, code) ==
    [NewChain(c.type) EXCEPT !.at = "exit", !.calls = Append(c.calls, call), !.exit = code]

InitChain ==
    /\ AtRest("chain")
    /\ tree = EmptyTree(TRUE, NoObjects)
    /\ sampled = NoObject
    /\ collapse = NoCollapse
    /\ checked = NoCheck
    /\ strategy = NoStrategy
    /\ attempt = NoAttempt
    /\ orientation = NoOrientation
    /\ \E tp \in {"STARSHAPED", "EDGEVISIBLE"} : chain = NewChain(tp)
    /\ growth = NoGrowth

\* Polygon::addVertex
ChainAddVertex ==
    /\ pc = "chain"
    /\ chain.at \in {"open", "closed"}
    /\ \/ /\ chain.closed
          /\ chain' = ChainExit(chain, "addVertex", 15)
       \/ /\ ~chain.closed
          /\ chain.n # 0 /\ chain.lastVUsed
          /\ chain' = ChainExit(chain, "addVertex", 15)
       \/ /\ ~chain.closed
          /\ ~(chain.n # 0 /\ chain.lastVUsed)
          /\ chain.n < MaxChain
          /\ \E p \in ChainPlaces :
                /\ Continues(chain.v, p)
                /\ chain' = [chain EXCEPT !.v = Append(@, p),
                                          !.lastVUsed = TRUE,
                                          !.lastEUsed = FALSE,
                                          !.n = @ + 1,
                                          !.calls = Append(@, "addVertex")]
    /\ UNCHANGED exceptChain

\* Polygon::addEdge
ChainAddEdge ==
    /\ pc = "chain"
    /\ chain.at \in {"open", "closed"}
    /\ chain' = IF chain.closed \/ chain.n = 0 \/ chain.lastEUsed
                THEN ChainExit(chain, "addEdge", 15)
                ELSE [chain EXCEPT !.lastVUsed = FALSE,
                                   !.lastEUsed = TRUE,
                                   !.calls = Append(@, "addEdge")]
    /\ UNCHANGED exceptChain

\* Polygon::close.  Without a last vertex (lastVUsed is NULL after close) the
\* entry of the closing edge is linked through a NULL pointer: the process is
\* ended by the signal or goes on with the store lost.
ChainClose ==
    /\ pc = "chain"
    /\ chain.at \in {"open", "closed"}
    /\ \/ /\ chain.n < 3 \/ chain.lastEUsed
          /\ chain' = ChainExit(chain, "close", 15)
       \/ /\ ~(chain.n < 3 \/ chain.lastEUsed)
          /\ chain.lastVUsed
          /\ chain' = [chain EXCEPT !.at = "closed",
                                    !.lastVUsed = FALSE,
                                    !.closed = TRUE,
                                    !.calls = Append(@, "close")]
       \/ /\ ~(chain.n < 3 \/ chain.lastEUsed)
          /\ ~chain.lastVUsed
          /\ \/ chain' = ChainExit(chain, "close", SegFault)
             \/ chain' = [chain EXCEPT !.at = "again", !.calls = Append(@, "close")]
    /\ UNCHANGED exceptChain

\* Polygon::setKernel for a closed chain, with a point the polygon is
\* star-shaped around
ChainSetKernel ==
    /\ pc = "chain"
    /\ chain.at = "closed"
    /\ chain.kernel = NoPoint
    /\ \/ /\ chain.type # "STARSHAPED"
          /\ chain' = ChainExit(chain, "setKernel", 15)
       \/ /\ chain.type = "STARSHAPED"
          /\ \E k \in KernelPlaces :
                /\ StarShaped(chain.v, k)
                /\ chain' = [chain EXCEPT !.kernel = k]
    /\ UNCHANGED exceptChain

\* The triangulation with the vertices and the edges of the closed chain q
ChainHeap(q) ==
    AddEdges([V |-> [i \in 1 .. Len(q) |-> RingVertex(q[i].x, q[i].y)],
              L |-> << >>, P |-> (0 :> << >>), E |-> << >>, T |-> << >>,
              n |-> 0, err |-> 0],
             [i \in 1 .. Len(q) |-> <<i, (i % Len(q)) + 1, "TRIANGULATION">>])

\* The Polygon of the chain q in the triangulation ChainHeap(q)
ChainPolygon(q) ==
    [v |-> [i \in 1 .. Len(q) |-> i],
     e |-> [i \in 1 .. Len(q) |-> EdgeOf(i, (i % Len(q)) + 1)],
     internal |-> TRUE]

\* Polygon::triangulate for a closed chain that is of the shape its type
\* names
ChainTriangulate ==
    /\ pc = "chain"
    /\ chain.at = "closed"
    /\ \/ /\ chain.type = "STARSHAPED"
          /\ chain.kernel = NoPoint
          /\ chain' = ChainExit(chain, "triangulate", 16)
       \/ /\ IF chain.type = "STARSHAPED" THEN chain.kernel # NoPoint
             ELSE EdgeVisible(chain.v)
          /\ LET H == IF chain.type = "STARSHAPED"
                      THEN TriangulateStar(ChainHeap(chain.v), ChainPolygon(chain.v),
                                           chain.kernel)
                      ELSE TriangulateVisible(ChainHeap(chain.v), ChainPolygon(chain.v))
             IN  chain' = [chain EXCEPT !.at = "done",
                                        !.exit = H.err,
                                        !.T = [i \in 1 .. Len(ByCreation(H.T, DOMAIN H.T)) |->
                                                 H.T[ByCreation(H.T, DOMAIN H.T)[i]].v],
                                        !.newEdges = Cardinality(DOMAIN H.E) - Len(chain.v)]
    /\ UNCHANGED exceptChain

NextChain ==
    \/ ChainAddVertex
    \/ ChainAddEdge
    \/ ChainClose
    \/ ChainSetKernel
    \/ ChainTriangulate

SpecChain == InitChain /\ [][NextChain]_vars

(***************************************************************************)
(* growPolygonBy: the loop that inserts n vertices into a ring.  The ring  *)
(* is the sequence of the lengths of its edges, in units of half of        *)
(* Settings::minLength.  The record growth holds the position in the loop  *)
(* (at), n, the count i of insertions, the counter of tries without a      *)
(* suitable edge, the ring and the index of the chosen edge.               *)
(***************************************************************************)
\* Settings::minLength and the length of the longest edge, in these units
MinLength == 2
MaxLength == 2

\* The largest n, the size of the largest ring at the start and the value
\* the counter of tries is followed up to (it is used for a warning only)
MaxGrow == 4
MaxRing == 4
MaxCounter == 2

\* Insertion::checkStability for an edge of length l, the triangles of the
\* edge being large enough
StableLength(l) == ~(l < MinLength)

\* The lengths of the two edges of the inserted vertex after
\* Insertion::translate has moved it, for an edge of length l: the ends of
\* the edge stay where they are.
MovedLengths(l) ==
    {ab \in (1 .. MaxLength) \X (1 .. MaxLength) :
        ab[1] + ab[2] >= l /\ ab[1] - ab[2] <= l /\ ab[2] - ab[1] <= l}

\* The ring q after an insertion into its edge e that leaves the edges a and b
InsertedLengths(q, e, a, b) == SubSeq(q, 1, e - 1) \o <<a, b>> \o SubSeq(q, e + 1, Len(q))

InitGrowth ==
    /\ AtRest("growth")
    /\ tree = EmptyTree(TRUE, NoObjects)
    /\ sampled = NoObject
    /\ collapse = NoCollapse
    /\ checked = NoCheck
    /\ strategy = NoStrategy
    /\ attempt = NoAttempt
    /\ orientation = NoOrientation
    /\ chain = NoChain
    /\ \E n \in -1 .. MaxGrow, size \in 3 .. MaxRing :
          growth = [at |-> "loop", n |-> n, i |-> 0, counter |-> 0,
                    ring |-> [k \in 1 .. size |-> MaxLength], e |-> 0]

\* growPolygonBy: the test of the loop and the random choice of an edge
GrowChoose ==
    /\ pc = "growth"
    /\ growth.at = "loop"
    /\ growth.i < growth.n
    /\ \E index \in 1 .. Len(growth.ring) :
          growth' = [growth EXCEPT !.at = "chosen", !.e = index]
    /\ UNCHANGED exceptGrowth

\* growPolygonBy: the chosen edge fails checkStability and the loop continues
\* without an insertion.
GrowRetry ==
    /\ pc = "growth"
    /\ growth.at = "chosen"
    /\ ~StableLength(growth.ring[growth.e])
    /\ growth' = [growth EXCEPT !.at = "loop",
                                !.e = 0,
                                !.counter = IF @ < MaxCounter THEN @ + 1 ELSE @]
    /\ UNCHANGED exceptGrowth

\* growPolygonBy: the insertion at the middle of the chosen edge
\* (Insertion::execute) and Insertion::translate, which moves the new vertex
\* or leaves it in the middle.
GrowInsert ==
    /\ pc = "growth"
    /\ growth.at = "chosen"
    /\ StableLength(growth.ring[growth.e])
    /\ \E moved \in BOOLEAN :
          \E ab \in IF moved THEN MovedLengths(growth.ring[growth.e])
                    ELSE {<<growth.ring[growth.e] \div 2, growth.ring[growth.e] \div 2>>} :
             growth' = [growth EXCEPT !.at = "loop",
                                      !.e = 0,
                                      !.counter = 0,
                                      !.i = @ + 1,
                                      !.ring = InsertedLengths(@, growth.e, ab[1], ab[2])]
    /\ UNCHANGED exceptGrowth

\* growPolygonBy returns.
GrowReturn ==
    /\ pc = "growth"
    /\ growth.at = "loop"
    /\ ~(growth.i < growth.n)
    /\ growth' = [growth EXCEPT !.at = "done"]
    /\ UNCHANGED exceptGrowth

NextGrowth ==
    \/ GrowChoose
    \/ GrowRetry
    \/ GrowInsert
    \/ GrowReturn

\* The random generator chooses an edge that passes checkStability
ChooseStable == GrowChoose /\ StableLength(growth'.ring[growth'.e])

\* The loop keeps running, and an edge that passes checkStability is chosen
\* at some time if the ring has one again and again.
SpecGrowth ==
    /\ InitGrowth
    /\ [][NextGrowth]_vars
    /\ WF_vars(NextGrowth)
    /\ SF_vars(ChooseStable)

(***************************************************************************)
(* Triangulation::innerPolygons: the ring ids that index it while          *)
(* strategyWithHoles1 runs                                                 *)
(***************************************************************************)
\* The largest Settings::initialTranslationNumber, the most insertions of one
\* growPolygonBy and the most operations after the growth of the holes
MaxMoves == 2
MaxInsertions == 2
MaxLater == 3

\* Triangulation::getVertex(i, pID), getActualNumberOfVertices(pID),
\* addEdge(e, pID) and getRandomEdgeWeighted(pID): the ring ids whose element
\* innerPolygons[pID - 1] the call reads. The id is tested against the
\* configured number of holes.
IndexedBySetting(S, pID) ==
    IF pID = 0 THEN {}
    ELSE IF pID > 0 /\ pID <= S.nrInnerPolygons THEN {pID}
    ELSE {}

\* Triangulation::addVertex(v, pID): the id is tested against the number of
\* rings in innerPolygons; the result is a record [indexed, err].
AddVertexToRing(S, pID) ==
    IF pID = 0 THEN [indexed |-> {}, err |-> 0]
    ELSE IF pID > 0 /\ pID <= S.innerPolygons THEN [indexed |-> {pID}, err |-> 0]
    ELSE [indexed |-> {}, err |-> 12]

\* Translation::checkOrientation, which the translation by retriangulation
\* uses: getVertex(0, i) for every configured hole but the ring of the moving
\* vertex
BaseOrientationRings(S, pid) ==
    UNION {IndexedBySetting(S, i) : i \in {j \in 1 .. S.nrInnerPolygons : j # pid}}

\* TranslationKinetic::checkOrientation: getVertex(0, i) for every ring in
\* innerPolygons but the ring of the moving vertex
KineticOrientationRings(S, pid) ==
    UNION {IndexedBySetting(S, i) : i \in {j \in 1 .. S.innerPolygons : j # pid}}

\* The rings indexed by the check of a translation of a vertex of ring pid
OrientationRings(S, pid) ==
    IF kinetic THEN KineticOrientationRings(S, pid) ELSE BaseOrientationRings(S, pid)

\* One round of growPolygonBy(T, pID, n) with an executed insertion:
\* getActualNumberOfVertices, the choice of the edge, Insertion::execute with
\* addVertex and addEdge. The result is a record [indexed, err].
InsertionRings(S, pID) ==
    LET added == AddVertexToRing(S, pID)
    IN  [indexed |-> IndexedBySetting(S, pID) \cup added.indexed, err |-> added.err]

\* The states after a call that has indexed innerPolygons with the ids: S
\* with the call recorded goes on as next; the element of a ring that is not
\* in the vector is outside the vector, the read of it ends the process or
\* gives a pointer to anything, with which the call goes on.
AfterIndexing(S, ids, call, err, next) ==
    LET record(R) == [R EXCEPT !.indexed = ids, !.call = call]
    IN  IF err # 0 THEN {record([S EXCEPT !.at = "exit", !.exit = err])}
        ELSE {record(next)}
             \cup IF \E id \in ids : id > S.innerPolygons
                  THEN {record([S EXCEPT !.at = "exit", !.exit = SegFault])}
                  ELSE {}

\* strategyWithHoles1 is called for the start polygon, which has no hole.
InitRings ==
    /\ kinetic \in BOOLEAN
    /\ vertices = InitialHeap.V
    /\ vertexList = InitialHeap.L
    /\ polygons = InitialHeap.P
    /\ edges = InitialHeap.E
    /\ triangles = InitialHeap.T
    /\ created = InitialHeap.n
    /\ exitCode = InitialHeap.err
    /\ pc = "rings"
    /\ tr = NoTranslation
    /\ outer = NoTranslation
    /\ nOps = 0
    /\ tree = EmptyTree(TRUE, NoObjects)
    /\ sampled = NoObject
    /\ collapse = NoCollapse
    /\ checked = NoCheck
    /\ attempt = NoAttempt
    /\ orientation = NoOrientation
    /\ chain = NoChain
    /\ growth = NoGrowth
    /\ \E n \in 1 .. MaxHoles, m \in 0 .. MaxMoves, g \in 0 .. MaxInsertions :
          strategy = [at |-> "moves",
                      nrInnerPolygons |-> n,
                      initialTranslationNumber |-> m,
                      nrInsertions |-> g,
                      innerPolygons |-> 0,
                      i |-> 0,
                      indexed |-> {},
                      call |-> "none",
                      exit |-> 0]

\* transformPolygonByMoves before the holes: a translation of a vertex of
\* the outer polygon is constructed and its orientation is checked.
MoveBeforeHoles ==
    /\ pc = "rings"
    /\ strategy.at = "moves"
    /\ strategy.i < strategy.initialTranslationNumber
    /\ strategy' \in AfterIndexing(strategy, OrientationRings(strategy, 0),
                                   "checkOrientation", 0,
                                   [strategy EXCEPT !.i = @ + 1])
    /\ UNCHANGED exceptStrategy

\* The return of transformPolygonByMoves
MovesDone ==
    /\ pc = "rings"
    /\ strategy.at = "moves"
    /\ ~(strategy.i < strategy.initialTranslationNumber)
    /\ strategy' = [strategy EXCEPT !.at = "grow", !.i = 0]
    /\ UNCHANGED exceptStrategy

\* growPolygonBy(T, 0, nrInsertions): an insertion into the outer polygon
GrowOuterRing ==
    /\ pc = "rings"
    /\ strategy.at = "grow"
    /\ strategy.i < strategy.nrInsertions
    /\ LET in == InsertionRings(strategy, 0)
       IN  strategy' \in AfterIndexing(strategy, in.indexed, "growPolygonBy", in.err,
                                       [strategy EXCEPT !.i = @ + 1])
    /\ UNCHANGED exceptStrategy

\* The return of growPolygonBy(T, 0, nrInsertions)
OuterRingGrown ==
    /\ pc = "rings"
    /\ strategy.at = "grow"
    /\ ~(strategy.i < strategy.nrInsertions)
    /\ strategy' = [strategy EXCEPT !.at = "holes", !.i = 0]
    /\ UNCHANGED exceptStrategy

\* insertHole: the ring is appended to innerPolygons, then its vertices and
\* its edges are added with the id of the ring.
InsertHoleRing ==
    /\ pc = "rings"
    /\ strategy.at = "holes"
    /\ strategy.i < strategy.nrInnerPolygons
    /\ LET index == strategy.innerPolygons + 1
           S == [strategy EXCEPT !.innerPolygons = index]
           added == AddVertexToRing(S, index)
       IN  strategy' \in AfterIndexing(S, added.indexed \cup IndexedBySetting(S, index),
                                       "insertHole", added.err,
                                       [S EXCEPT !.i = @ + 1])
    /\ UNCHANGED exceptStrategy

\* All holes are inserted.
HolesInserted ==
    /\ pc = "rings"
    /\ strategy.at = "holes"
    /\ ~(strategy.i < strategy.nrInnerPolygons)
    /\ strategy' = [strategy EXCEPT !.at = "growHoles", !.i = 1]
    /\ UNCHANGED exceptStrategy

\* growPolygonBy(T, i, nrInsertions) for the hole i: an insertion into it
GrowHoleRing ==
    /\ pc = "rings"
    /\ strategy.at = "growHoles"
    /\ strategy.i <= strategy.nrInnerPolygons
    /\ LET in == InsertionRings(strategy, strategy.i)
       IN  strategy' \in AfterIndexing(strategy, in.indexed, "growPolygonBy", in.err,
                                       [strategy EXCEPT !.i = @ + 1])
    /\ UNCHANGED exceptStrategy

\* All holes are grown.
HolesGrown ==
    /\ pc = "rings"
    /\ strategy.at = "growHoles"
    /\ ~(strategy.i <= strategy.nrInnerPolygons)
    /\ strategy' = [strategy EXCEPT !.at = "later", !.i = 0]
    /\ UNCHANGED exceptStrategy

\* The rest of the strategy: the translations of transformPolygonByMoves,
\* inflateHole and shrinkAroundHole for a vertex of any ring
MoveLater ==
    /\ pc = "rings"
    /\ strategy.at = "later"
    /\ strategy.i < MaxLater
    /\ \E pid \in 0 .. strategy.innerPolygons :
          strategy' \in AfterIndexing(strategy,
                                      IndexedBySetting(strategy, pid)
                                          \cup OrientationRings(strategy, pid),
                                      "checkOrientation", 0,
                                      [strategy EXCEPT !.i = @ + 1])
    /\ UNCHANGED exceptStrategy

\* The rest of the strategy: the insertions of the doubling loop
GrowLater ==
    /\ pc = "rings"
    /\ strategy.at = "later"
    /\ strategy.i < MaxLater
    /\ \E pID \in 0 .. strategy.nrInnerPolygons :
          LET in == InsertionRings(strategy, pID)
          IN  strategy' \in AfterIndexing(strategy, in.indexed, "growPolygonBy", in.err,
                                          [strategy EXCEPT !.i = @ + 1])
    /\ UNCHANGED exceptStrategy

NextRings ==
    \/ MoveBeforeHoles
    \/ MovesDone
    \/ GrowOuterRing
    \/ OuterRingGrown
    \/ InsertHoleRing
    \/ HolesInserted
    \/ GrowHoleRing
    \/ HolesGrown
    \/ MoveLater
    \/ GrowLater

SpecRings == InitRings /\ [][NextRings]_vars

(***************************************************************************)
(* Properties                                                              *)
(***************************************************************************)
\* No operation is in progress and the process has not ended
Idle == pc = "idle" /\ exitCode = 0

PolygonEdgesOf(v) == {e \in DOMAIN edges : v \in e /\ edges[e].type = "POLYGON"}

\* The vertices which are no corners of the bounding box
PolygonVertices == {v \in DOMAIN vertices : vertices[v].pid # -1}

RECURSIVE NextSteps(_, _)
NextSteps(v, k) ==
    IF k = 0 THEN v
    ELSE LET u == NextSteps(v, k - 1)
         IN  IF u = 0 \/ vertices[u].toNext = NULL THEN 0
             ELSE OtherVertexOfEdge(vertices[u].toNext, u)

\* The vertices registered in the ring r
RingOf(r) == {polygons[r][i] : i \in 1..Len(polygons[r])}

\* Only insertions and hole insertions have been made.
OnlyInsertions == Idle /\ tr = NoTranslation

\* C3: after any sequence of insertions and hole insertions, following toNext
\* from any vertex of a ring r returns to that vertex after exactly |r| steps
\* and visits only vertices registered in r.
RingTraversal ==
    OnlyInsertions =>
        \A r \in DOMAIN polygons : \A v \in RingOf(r) :
            /\ NextSteps(v, Len(polygons[r])) = v
            /\ \A k \in 1..(Len(polygons[r]) - 1) :
                   /\ NextSteps(v, k) # v
                   /\ NextSteps(v, k) \in RingOf(r)
                   /\ vertices[NextSteps(v, k)].pid = r

\* A hole was inserted and a vertex was inserted into an edge of the hole.
RingTraversalWitness ==
    /\ OnlyInsertions
    /\ \E r \in DOMAIN polygons : r # 0 /\ Len(polygons[r]) > 3

\* execute has returned (the translation is about to be destroyed)
Returned(ex) == pc \in {"destroy", "destroyed"} /\ exitCode = 0 /\ tr.ex = ex

\* The positions of the vertices, the edges by end points and kind and the
\* triangles by vertices and internal flag of a triangulation
PositionsOf(V) == [v \in DOMAIN V |-> <<V[v].x, V[v].y, V[v].w>>]
EdgeKindsOf(E) == [e \in DOMAIN E |-> E[e].type]
TriangleFlagsOf(T) == [t \in DOMAIN T |-> T[t].internal]

\* The triangulation is the one at the call of execute.
SameTriangulation ==
    /\ PositionsOf(vertices) = PositionsOf(tr.snap.V)
    /\ EdgeKindsOf(edges) = EdgeKindsOf(tr.snap.E)
    /\ TriangleFlagsOf(triangles) = TriangleFlagsOf(tr.snap.T)

\* C4: if execute returns UNDONE, the triangulation is identical to its state
\* immediately before the call: the same vertex positions, the same edges by
\* end points and kind, the same triangles by vertices and internal flag.
UndoneRestores == Returned("UNDONE") => SameTriangulation

\* The triangles without their marks of the event queue
Geometry(T) == [t \in DOMAIN T |-> [T[t] EXCEPT !.enqueued = FALSE]]

\* C5: if the execute of a kinetic translation returns REJECTED, the call has
\* changed no vertex position, no edge and no triangle.
RejectedChangesNothing ==
    (kinetic /\ Returned("REJECTED")) =>
        /\ PositionsOf(vertices) = PositionsOf(tr.snap.V)
        /\ edges = tr.snap.E
        /\ Geometry(triangles) = Geometry(tr.snap.T)

\* A triangle of the moving vertex has the area zero at the call of execute.
CollapsedAtStart ==
    \E t \in DOMAIN tr.snap.T :
        /\ tr.original \in t
        /\ LET S == [V |-> tr.snap.V]
               v == tr.snap.T[t].v
           IN  Det(Pos(S, v[1]), Pos(S, v[2]), Pos(S, v[3])) = 0

\* C5, amended: if the execute of a kinetic translation returns REJECTED, the
\* call has changed no vertex position; it has changed no edge and no triangle
\* unless a triangle of the moving vertex had the area zero at the call, and
\* then one edge is replaced by another (the security flip).
RejectedChangesNoPosition ==
    (kinetic /\ Returned("REJECTED")) =>
        /\ PositionsOf(vertices) = PositionsOf(tr.snap.V)
        /\ ~CollapsedAtStart =>
               (edges = tr.snap.E /\ Geometry(triangles) = Geometry(tr.snap.T))
        /\ Cardinality(DOMAIN tr.snap.E \ DOMAIN edges) <= 1
        /\ Cardinality(DOMAIN edges \ DOMAIN tr.snap.E) <= 1
        /\ \A e \in DOMAIN edges \cap DOMAIN tr.snap.E : edges[e].type = tr.snap.E[e].type

\* A translation is rejected after the generation of its initial event queue,
\* which has enqueued a triangle.
RejectedWitness ==
    /\ kinetic
    /\ Returned("REJECTED")
    /\ \E t \in DOMAIN triangles : triangles[t].enqueued

\* The vertices with other coordinates than at the call of execute
Moved == {v \in DOMAIN vertices : PositionsOf(vertices)[v] # PositionsOf(tr.snap.V)[v]}

PolygonEdgesStay ==
    (pc # "idle" \/ pc' # "idle") =>
        \A e \in DOMAIN edges :
            edges[e].type = "POLYGON" =>
                (e \in DOMAIN edges' /\ edges'[e].type = "POLYGON")

FlipsKeepPolygonEdges == [][PolygonEdgesStay]_vars

\* The process has ended with exit code 3.
FlipRefusedWitness == exitCode = 3

SelectionByWeight ==
    \A o \in Stored(tree) :
        Chance(tree, o) = Time(SelectionWeight(tree, o), SumOfWeights(tree, Stored(tree)))

\* C13: after every insertion and removal the entry of each stored object is
\* the node that holds it, and a node holds only an object that is alive.
BackPointers ==
    /\ \A n \in 1 .. Len(tree.N) :
          tree.N[n].element # NoObject
              => /\ tree.O[tree.N[n].element].alive
                 /\ tree.O[tree.N[n].element].entry = n
    /\ \A o \in 1 .. MaxObjects :
          tree.O[o].alive => /\ tree.O[o].entry # NoEntry
                             /\ tree.N[tree.O[o].entry].element = o

\* An object sits in the node that a destroyed object left, another one in a
\* leaf of its own, and a third node is empty after a removal.
BackPointersWitness ==
    /\ \E o, d \in 1 .. MaxObjects :
          /\ tree.O[o].alive
          /\ tree.O[d].destroyed
          /\ tree.O[o].entry = tree.O[d].entry
    /\ \E o \in 1 .. MaxObjects :
          /\ tree.O[o].alive
          /\ \A d \in 1 .. MaxObjects : tree.O[d].destroyed => tree.O[d].entry # tree.O[o].entry
    /\ tree.emptyNodes # << >>

\* C14: in an unweighted tree the weight of every subtree is the number of its
\* nodes that hold an object.
UnweightedCounts ==
    ~tree.weighted
        => \A n \in 1 .. Len(tree.N) :
              tree.N[n].totalWeight = Cardinality(Occupied(tree, n))

\* C15: at every node the two subtrees hold numbers of objects that differ by
\* at most 1.
StoredBalanced ==
    \A n \in 1 .. Len(tree.N) :
        Abs(Cardinality(Occupied(tree, tree.N[n].leftChild))
            - Cardinality(Occupied(tree, tree.N[n].rightChild))) <= 1

\* C15, amended: at every node the two subtrees have numbers of nodes, with or
\* without an object, that differ by at most 1, and the node knows these
\* numbers.
NodesBalanced ==
    \A n \in 1 .. Len(tree.N) :
        /\ tree.N[n].nrElementsLeft = Cardinality(Subtree(tree, tree.N[n].leftChild))
        /\ tree.N[n].nrElementsRight = Cardinality(Subtree(tree, tree.N[n].rightChild))
        /\ Abs(tree.N[n].nrElementsLeft - tree.N[n].nrElementsRight) <= 1

\* After insertions and removals: a tree of four nodes, one of them empty.
NodesBalancedWitness ==
    /\ Len(tree.N) = 4
    /\ tree.emptyNodes # << >>
    /\ \E n \in 1 .. Len(tree.N) :
          Abs(Cardinality(Occupied(tree, tree.N[n].leftChild))
              - Cardinality(Occupied(tree, tree.N[n].rightChild))) > 1

\* C16: Triangulation::addEdge for a POLYGON edge that has an entry leaves the
\* tree as it is.
AddEdgeIdempotent == [][AddEdgeAgain => tree' = tree]_vars

(***************************************************************************)
(* The times of the events                                                 *)
(***************************************************************************)

\* C11: the time of every event that is put into the event queue, at the start
\* of a translation or after a flip, is a number from 0 to 1.
CollapseTimesInRange ==
    collapse.at \in {"start", "flip"}
        => /\ collapse.time.d # 0
           /\ ~FLess(collapse.time, Time(0, 1))
           /\ ~FLess(Time(1, 1), collapse.time)

\* Triangulation::check was called with global checking and has returned true.
CheckPassed == checked.globalChecking /\ checked.result = "TRUE"

\* Invariant 1: the number of triangles at every edge
IncidenceHolds ==
    \A e \in DOMAIN edges :
        NrAssignedTriangles(edges[e]) = IF edges[e].type = "FRAME" THEN 1 ELSE 2

\* Invariant 2: two polygon edges at every vertex of a polygon, which are its
\* edges to the previous and to the next vertex
PolygonEdgesHold ==
    \A v \in PolygonVertices :
        /\ Cardinality(PolygonEdgesOf(v)) = 2
        /\ PolygonEdgesOf(v) = {vertices[v].toPrev, vertices[v].toNext}

\* Invariant 3: toNext leads from every vertex of a ring through the ring
RingsHold ==
    \A r \in DOMAIN polygons : \A v \in RingOf(r) :
        /\ NextSteps(v, Len(polygons[r])) = v
        /\ \A k \in 1..(Len(polygons[r]) - 1) :
               NextSteps(v, k) # v /\ NextSteps(v, k) \in RingOf(r)

\* The vertex v is outside of its surrounding polygon: two triangles at v on
\* the two sides of an edge at v lie on the same side of this edge.
Outside(v) ==
    \E e \in DOMAIN edges :
        /\ v \in e
        /\ edges[e].t0 # NULL /\ edges[e].t1 # NULL
        /\ LET u == OtherVertexOfEdge(e, v)
               b == CHOOSE x \in edges[e].t0 : x \notin e
               c == CHOOSE x \in edges[e].t1 : x \notin e
               sideB == Det(Pos(Heap, v), Pos(Heap, u), Pos(Heap, b))
               sideC == Det(Pos(Heap, v), Pos(Heap, u), Pos(Heap, c))
           IN  (sideB > 0 /\ sideC > 0) \/ (sideB < 0 /\ sideC < 0)

\* Invariant 4, for the vertices of the polygons
InsideHolds == \A v \in PolygonVertices : ~Outside(v)

NoFlatTriangle(v) ==
    \A t \in DOMAIN triangles :
        v \in t => \E a, b \in t \ {v} :
                       a # b /\ Det(Pos(Heap, a), Pos(Heap, b), Pos(Heap, v)) # 0

DoublingEnded == strategy.at = "done"

\* C18: when the doubling loop of strategyWithHoles0 or strategyWithHoles1
\* ends, every polygon has its configured number of vertices, and no pass
\* grows a polygon beyond this number.
DoublingReachesTargets ==
    /\ strategy.at \in {"loop", "done"} =>
           /\ strategy.outer <= strategy.outerSize
           /\ \A i \in 1 .. strategy.nrInnerPolygons :
                  strategy.inner[i] <= strategy.innerSizes[i]
    /\ DoublingEnded =>
           /\ strategy.outer = strategy.outerSize
           /\ \A i \in 1 .. strategy.nrInnerPolygons :
                  strategy.inner[i] = strategy.innerSizes[i]

\* C19: in strategyWithHoles1, when the first hole is inserted the outer
\* polygon has at least 10 x nrInnerPolygons vertices, or outerSize vertices if
\* outerSize is smaller.
OuterBeforeHoles ==
    (strategy.at # "none" /\ ~strategy.holeInsertionAtStart /\ strategy.inner # << >>) =>
        strategy.atFirstHole >= IF strategy.outerSize < 10 * strategy.nrInnerPolygons
                                THEN strategy.outerSize
                                ELSE 10 * strategy.nrInnerPolygons

\* C20 (as stated): Insertion::translate ends its attempts only after an
\* attempt with the outcome FULL or PARTIAL or after insertionTries attempts;
\* an attempt with the outcome REJECTED or UNDONE does not end them.
RetriesUntilMoved ==
    attempt.at = "done" =>
        attempt.outcome \in {"FULL", "PARTIAL"} \/ attempt.count = insertionTries

\* C20 (amended): Insertion::translate ends its attempts only after an attempt
\* that passed the checks for a rollover and for simplicity and was executed,
\* or after insertionTries attempts; at most one translation is executed,
\* whatever its outcome, and the attempt that executes it is the last one.
RetriesUntilExecuted ==
    /\ attempt.at = "done" => attempt.executed = 1 \/ attempt.count = insertionTries
    /\ attempt.at \in {"loop", "done"} =>
           /\ attempt.executed <= 1
           /\ attempt.count <= insertionTries
           /\ attempt.executed = 1 => ~Retry(attempt)

\* The attempts have ended after an executed translation with the outcome
\* REJECTED or UNDONE, before the limit of the attempts and after attempts
\* that were not executed.
RetriesUntilExecutedWitness ==
    /\ attempt.at = "done"
    /\ attempt.outcome \in {"REJECTED", "UNDONE"}
    /\ attempt.count > 1
    /\ attempt.count < insertionTries

\* The corners of the quadrilateral of a translation in their order: oldV,
\* prevV, newV, nextV
Quadrilateral(t) == <<t.oldV, Pos(Heap, t.prevV), t.newV, Pos(Heap, t.nextV)>>

\* The quadrilateral of the translation t is simple: neither pair of opposite
\* sides meets.
SimpleQuadrilateral(t) ==
    LET q == Quadrilateral(t)
    IN  /\ CheckIntersection(q[2], q[1], q[3], q[4]) = "NONE"
        /\ CheckIntersection(q[1], q[4], q[2], q[3]) = "NONE"

\* The point p lies at the segment (a, b).
AtSegment(p, a, b) ==
    /\ Det(a, b, p) = 0
    /\ (XLeq(a, p) /\ XLeq(p, b)) \/ (XLeq(b, p) /\ XLeq(p, a))
    /\ (YLeq(a, p) /\ YLeq(p, b)) \/ (YLeq(b, p) /\ YLeq(p, a))

\* The side from a to b is crossed by the ray from p to the right (a side
\* contains its lower end only).
CrossedToTheRight(p, a, b) ==
    IF YLeq(a, p) /\ ~YLeq(b, p) THEN Det(a, b, p) > 0
    ELSE IF YLeq(b, p) /\ ~YLeq(a, p) THEN Det(b, a, p) > 0
    ELSE FALSE

\* The point p lies inside of the quadrilateral q, off its sides: a ray from p
\* crosses an odd number of sides.
InsideOf(p, q) ==
    LET sides == {<<1, 2>>, <<2, 3>>, <<3, 4>>, <<4, 1>>}
    IN  /\ \A e \in sides : ~AtSegment(p, q[e[1]], q[e[2]])
        /\ Cardinality({e \in sides : CrossedToTheRight(p, q[e[1]], q[e[2]])}) % 2 = 1

\* The polygon neighbours of prevV and of nextV in a translation of a vertex
\* of a polygon with more than three vertices
NeighboursOfNeighbours(t) ==
    IF Len(polygons[vertices[t.original].pid]) = 3 THEN {}
    ELSE {GetPrev(Heap, t.prevV), GetNext(Heap, t.nextV)}

\* checkOrientation has returned for a translation.
OrientationKnown == orientation.at = "checked"

\* C21 (as stated): a translation with a quadrilateral that is not simple is
\* rejected by checkOrientation if the polygon neighbour of prevV or of nextV
\* lies inside of the quadrilateral.
NonSimpleQuadrilateralRejects ==
    (/\ OrientationKnown
     /\ ~SimpleQuadrilateral(orientation.tr)
     /\ \E v \in NeighboursOfNeighbours(orientation.tr) :
            InsideOf(Pos(Heap, v), Quadrilateral(orientation.tr)))
        => orientation.orientationChange

\* The kinds of the intersections of the test ray of insideQuadrilateral for
\* the vertex v with the four sides of the quadrilateral of the translation t
\* (no ray is made for a vertex to the right of the quadrilateral)
RayIntersections(t, v) ==
    LET q == Quadrilateral(t)
        p == Pos(Heap, v)
        Rightmost(S) == CHOOSE m \in S : \A c \in S : XLeq(c, m)
        m == Rightmost({q[1], q[2], q[3], q[4]})
        end == Norm([x |-> (m.x + 10 * m.w) * p.w, y |-> p.y * m.w, w |-> m.w * p.w])
    IN  IF ~XLeq(p, m) THEN {}
        ELSE {CheckIntersection(p, end, q[e[1]], q[e[2]]) :
                 e \in {<<1, 2>>, <<2, 3>>, <<3, 4>>, <<4, 1>>}}

\* C21 (amended): checkOrientation tests the polygon neighbours of prevV and
\* nextV if the quadrilateral is simple, not if it is not simple: in a polygon
\* without holes a translation with a quadrilateral that is not simple is
\* never rejected, and a translation with a simple quadrilateral is rejected
\* if one of these neighbours lies inside of the quadrilateral and its test
\* ray meets no side in an intersection of the kind VERTEX.
SimpleQuadrilateralRejects ==
    OrientationKnown =>
        IF SimpleQuadrilateral(orientation.tr)
        THEN (\E v \in NeighboursOfNeighbours(orientation.tr) :
                 /\ InsideOf(Pos(Heap, v), Quadrilateral(orientation.tr))
                 /\ "VERTEX" \notin RayIntersections(orientation.tr, v))
             => orientation.orientationChange
        ELSE ~orientation.orientationChange

\* A translation with a simple quadrilateral was rejected for a neighbour of
\* nextV inside of the quadrilateral.
SimpleQuadrilateralRejectsWitness ==
    /\ OrientationKnown
    /\ SimpleQuadrilateral(orientation.tr)
    /\ orientation.orientationChange
    /\ LET v == GetNext(Heap, orientation.tr.nextV)
       IN  /\ v \in NeighboursOfNeighbours(orientation.tr)
           /\ InsideOf(Pos(Heap, v), Quadrilateral(orientation.tr))
           /\ "VERTEX" \notin RayIntersections(orientation.tr, v)
           /\ v # GetPrev(Heap, orientation.tr.prevV)

\* C22: if the test ray of insideQuadrilateral meets a side of the
\* quadrilateral in an intersection of the kind VERTEX, the translation is
\* rejected.
VertexIntersectionRejects ==
    (/\ OrientationKnown
     /\ SimpleQuadrilateral(orientation.tr)
     /\ \E v \in NeighboursOfNeighbours(orientation.tr) :
            "VERTEX" \in RayIntersections(orientation.tr, v))
        => orientation.orientationChange


\* The chain was closed as a polygon of the shape its type names and
\* triangulate was called for it.
Retriangulated == pc = "chain" /\ chain.at = "done"

\* The positions of the vertices of the i-th triangle of the chain
TrianglePlaces(i) == [k \in 1 .. 3 |-> chain.v[chain.T[i][k]]]

\* The apexes of the ears that were cut off: the middle vertices of all
\* triangles but the last
Apexes == {chain.T[i][2] : i \in 1 .. Len(chain.T) - 1}

\* C23: retriangulating a closed chain of n >= 3 vertices (star-shaped or
\* edge-visible) terminates, having created exactly n - 2 triangles and n - 3
\* new edges, the last triangle being formed from the three remaining
\* vertices.
RetriangulationTerminates ==
    Retriangulated =>
        /\ chain.exit = 0
        /\ Len(chain.T) = chain.n - 2
        /\ chain.newEdges = chain.n - 3
        /\ {chain.T[Len(chain.T)][k] : k \in 1 .. 3} = (1 .. chain.n) \ Apexes

\* C24: every triangle created while retriangulating a sub-polygon (each ear
\* that is cut off and the last remaining triangle) has non-zero signed area.
NoEmptyTriangle ==
    Retriangulated =>
        \A i \in 1 .. Len(chain.T) :
            Det(TrianglePlaces(i)[1], TrianglePlaces(i)[2], TrianglePlaces(i)[3]) # 0

\* C25: when an edge-visible polygon is retriangulated, the apex of every ear
\* that is cut off is a vertex of the chain that is no end of the base edge
\* (the closing edge between the last and the first vertex of the chain).
ApexNotAtBaseEdge ==
    Retriangulated /\ chain.type = "EDGEVISIBLE" =>
        \A a \in Apexes : a \in 2 .. chain.n - 1

\* An edge-visible polygon of five vertices was triangulated with two ears.
ApexNotAtBaseEdgeWitness ==
    /\ Retriangulated
    /\ chain.type = "EDGEVISIBLE"
    /\ chain.exit = 0
    /\ Cardinality(Apexes) = 2

\* The calls addVertex, (addEdge, addVertex)*, and then close after at least
\* three vertices, or a beginning of this sequence
RECURSIVE Accepted(_, _)
Accepted(calls, i) ==
    IF i > Len(calls) THEN TRUE
    ELSE /\ IF calls[i] = "close" THEN i = Len(calls) /\ i % 2 = 0 /\ i >= 6
            ELSE calls[i] = (IF i % 2 = 1 THEN "addVertex" ELSE "addEdge")
         /\ Accepted(calls, i + 1)

\* The calls of addVertex, addEdge and close made so far
BuildCalls == SelectSeq(chain.calls, LAMBDA c : c \in {"addVertex", "addEdge", "close"})

\* C26: a chain accepts only the call sequence addVertex, (addEdge,
\* addVertex)*, close with at least three vertices; every other order of
\* addVertex, addEdge and close ends the process with exit code 15.
OnlyProtocolAccepted ==
    pc = "chain" /\ chain.at # "done" /\ chain.calls # << >> /\ chain.calls = BuildCalls =>
        IF Accepted(chain.calls, 1) THEN chain.exit = 0
        ELSE chain.at = "exit" /\ chain.exit = 15


\* C27: after a kinetic translation has finished and its object has been
\* destroyed, whatever the outcome and also when the translation was aborted
\* with events still in the queue, no live triangle has its enqueued flag
\* set.
NoTriangleEnqueued ==
    (kinetic /\ Idle /\ tr # NoTranslation) =>
        \A t \in DOMAIN triangles : ~triangles[t].enqueued


\* C28: growPolygonBy(ring, n) terminates for every n, having executed
\* exactly max(n, 0) insertions; the retry after a failed checkStability does
\* not repeat forever.
GrowthTerminates ==
    pc = "growth" =>
        <>(growth.at = "done" /\ growth.i = (IF growth.n > 0 THEN growth.n ELSE 0))


\* C29: getRandomObject on a SelectionTree that stores at least one object
\* always returns an object that is stored at that time: never NULL and never
\* an object that was removed earlier.
ReturnsStoredObject ==
    (pc = "selection" /\ Stored(tree) # {}) => GetRandomObject(tree) \subseteq Stored(tree)


\* C30: every ring id that indexes the list of the rings of the holes, in
\* checkOrientation, getVertex, getActualNumberOfVertices and addEdge, is the
\* id of a hole that is inserted at that time; the translations and the
\* insertions of strategyWithHoles1 before and between the calls of
\* insertHole index no ring that does not exist yet.
IndexedRingsExist ==
    pc = "rings" => \A id \in strategy.indexed : id <= strategy.innerPolygons

====
